---- MODULE Spec2Model ----
(***************************************************************************)
(* A model of the ChatGPT log converter (src/to_markdown.py): the command  *)
(* line program run on one conversation file (Spec), and run again on the  *)
(* same file and output target, which may exist before the first run       *)
(* (SpecAgain).  The conversation record is the input;                     *)
(* extract_message_content, build_turns (root search, recursive traversal, *)
(* grouping into Turns), the rendering of the document and main are        *)
(* translated from the Python source.  Two more specifications run         *)
(* adjust_headings and format_timestamp on their own over bounded inputs.  *)
(*                                                                         *)
(* JSON values are records of one shape, [k, s, n, f, l]: k is the kind    *)
(* ("absent" for a missing key, "null", "str", "num", "list", "obj"), s a  *)
(* string as a sequence of one-character strings, n the whole part (the    *)
(* floor) of a number and f its fraction in tenths of a microsecond, and l *)
(* the elements of a list.  Strings are sequences of characters so that    *)
(* str.strip() is computed and not assumed.                                *)
(***************************************************************************)
EXTENDS Integers, Sequences, FiniteSets, TLC

VARIABLES
    input,      \* the command line and the conversation file it names:
                \* [named, exists, title, create_time, update_time, mapping]
    pc,         \* position in generate_markdown
    root_id,    \* build_turns: the root found (NoNode when none)
    stack,      \* build_turns.traverse: the call stack, frames <<node_id, next child index>>
    messages,   \* build_turns: the flattened list of recorded entries
    turns,      \* build_turns: the Turn list
    stdout,     \* lines printed so far (INFO diagnostics, the warning)
    calls,      \* history: the calls of extract_message_content, [node_id, outcome]
    meta,       \* generate_markdown: the derived metadata (steps 4-7)
    body_parts, \* generate_markdown: the rendered Turn texts
    tix,        \* generate_markdown: index of the next Turn of the body loop
    outFile,    \* the output target's content (NoFile when it does not exist)
    result,     \* what generate_markdown returned or raised
    exit_code,  \* main: the exit status of the process, once it has ended
    earlier,    \* history: how the earlier runs of the command ended
    arg,        \* the argument of a function run on its own
    ret,        \* what that function returned
    batch,      \* batch_convert: the directories, the counters and the log
    split       \* split_conversations: the export, the output tree, the index

vars == <<input, pc, root_id, stack, messages, turns, stdout, calls, meta,
          body_parts, tix, outFile, result, exit_code, earlier, arg, ret,
          batch, split>>

(***************************************************************************)
(* Bounds of the model.                                                    *)
(***************************************************************************)
\* Largest number of nodes of an enumerated tree-shaped mapping.
MaxNodes == 4
\* Largest number of nodes of an enumerated malformed mapping.
MaxBadNodes == 3
\* Largest number of nodes of an enumerated chain (each node the only child
\* of the one before).
MaxChain == 6
\* Stand-in for the interpreter's recursion limit (frames of traverse).
RecursionLimit == 8
\* Number of runs of the command on the same file and output target.
MaxRuns == 2
MaxEntries == 3
MaxConvs == 2
\* Longest enumerated text handed to adjust_headings.
MaxTextLen == 4
\* Largest enumerated number of whole seconds handed to format_timestamp.
MaxSeconds == 130

(***************************************************************************)
(* JSON values.                                                            *)
(***************************************************************************)
JAbsent == [k |-> "absent", s |-> <<>>, n |-> 0, f |-> 0, l |-> <<>>]
JNull == [k |-> "null", s |-> <<>>, n |-> 0, f |-> 0, l |-> <<>>]
JStr(chars) == [k |-> "str", s |-> chars, n |-> 0, f |-> 0, l |-> <<>>]
\* The number whole + frac / 10^7, 0 <= frac < 10^7.
JFloat(whole, frac) == [k |-> "num", s |-> <<>>, n |-> whole, f |-> frac, l |-> <<>>]
JNum(num) == JFloat(num, 0)
JList(elems) == [k |-> "list", s |-> <<>>, n |-> 0, f |-> 0, l |-> elems]
\* A JSON object whose fields the converter never reads (an image part).
JObj == [k |-> "obj", s |-> <<>>, n |-> 0, f |-> 0, l |-> <<>>]

\* dict.get(key): a missing key and a null value both read as None.
IsNone(v) == v.k \in {"absent", "null"}

\* Python truthiness of a JSON value.
Truthy(v) ==
    CASE v.k \in {"absent", "null"} -> FALSE
      [] v.k = "str" -> v.s # <<>>
      [] v.k = "num" -> v.n # 0 \/ v.f # 0
      [] v.k = "list" -> v.l # <<>>
      [] OTHER -> TRUE

\* Whether Python can hash the value (set membership raises TypeError otherwise).
Hashable(v) == v.k \notin {"list", "obj"}

(***************************************************************************)
(* Strings.                                                                *)
(***************************************************************************)
Whitespace == {" ", "\t", "\n", "\r"}

RECURSIVE LStrip(_)
LStrip(chars) ==
    IF chars # <<>> /\ Head(chars) \in Whitespace THEN LStrip(Tail(chars)) ELSE chars

RECURSIVE RStrip(_)
RStrip(chars) ==
    IF chars # <<>> /\ chars[Len(chars)] \in Whitespace
    THEN RStrip(SubSeq(chars, 1, Len(chars) - 1))
    ELSE chars

\* str.strip()
Strip(chars) == RStrip(LStrip(chars))

(***************************************************************************)
(* extract_message_content.  The outcome is [kind, text, info, exc]: kind   *)
(* is "str" (text returned), "none" (the skip signal) or "raise" (the       *)
(* exception exc left the function); info is the content_type of the INFO  *)
(* line printed, JAbsent when nothing was printed.                         *)
(***************************************************************************)
ALLOWED_CONTENT_TYPES ==
    { <<"t","e","x","t">>, <<"c","o","d","e">>,
      <<"m","u","l","t","i","m","o","d","a","l","_","t","e","x","t">>,
      <<"r","e","a","s","o","n","i","n","g","_","r","e","c","a","p">>,
      <<"t","h","o","u","g","h","t","s">> }

SILENT_SKIP_TYPES ==
    { <<"u","s","e","r","_","e","d","i","t","a","b","l","e","_","c","o","n","t","e","x","t">>,
      <<"a","p","p","_","p","a","i","r","i","n","g","_","c","o","n","t","e","n","t">> }

Returned(chars) == [kind |-> "str", text |-> chars, info |-> JAbsent, exc |-> ""]
\* return None
Skip == [kind |-> "none", text |-> <<>>, info |-> JAbsent, exc |-> ""]
\* The skip of an unrecognized type without the print of line 199.
SkipWithoutInfo(ct) == Skip

\* Lines 196-200: print the INFO line, return None
SkipWithInfo(ct) == [kind |-> "none", text |-> <<>>, info |-> ct, exc |-> ""]
Raised(exception) == [kind |-> "raise", text |-> <<>>, info |-> JAbsent, exc |-> exception]

\* content_type in SILENT_SKIP_TYPES, for a hashable content_type
InSilent(ct) == ct.k = "str" /\ ct.s \in SILENT_SKIP_TYPES
\* content_type in ALLOWED_CONTENT_TYPES, for a hashable content_type
InAllowed(ct) == ct.k = "str" /\ ct.s \in ALLOWED_CONTENT_TYPES

\* isinstance(part, str) and part.strip()
PartQualifies(part) == part.k = "str" /\ Strip(part.s) # <<>>

\* The for loop over parts: the first qualifying element, stripped.
RECURSIVE ScanParts(_)
ScanParts(elems) ==
    IF elems = <<>> THEN Skip
    ELSE IF PartQualifies(Head(elems)) THEN Returned(Strip(Head(elems).s))
    ELSE ScanParts(Tail(elems))

\* The text fallback of lines 227-234.
TextFallback(content) ==
    IF Truthy(content.text) /\ content.text.k = "str" /\ Strip(content.text.s) # <<>>
    THEN Returned(Strip(content.text.s))
    ELSE Returned(<<>>)

\* Steps 3-5 with the text fallback taken also when parts holds no text.
ExtractBodyFallsBack(content) ==
    IF content.parts.k = "list" /\ ScanParts(content.parts.l).kind = "str"
    THEN ScanParts(content.parts.l)
    ELSE TextFallback(content)

\* Steps 3-5 with empty content treated as a skip.
ExtractBodySkipsEmpty(content) ==
    IF ~IsNone(content.parts)
    THEN IF content.parts.k # "list" THEN Skip ELSE ScanParts(content.parts.l)
    ELSE IF TextFallback(content).text = <<>> THEN Skip ELSE TextFallback(content)

\* Steps 3-5: parts first, the text field as the fallback.
ExtractBody(content) ==
    IF ~IsNone(content.parts)
    THEN IF content.parts.k # "list" THEN Skip
         ELSE IF Len(content.parts.l) = 0 THEN Skip
         ELSE ScanParts(content.parts.l)
    ELSE TextFallback(content)

\* extract_message_content without the silent-skip test of lines 192-193: a
\* silent-skip type then falls to the whitelist test and is reported.
ExtractWithoutSilentSkip(message) ==
    LET content == message.content
        ct == content.content_type
    IN  IF content.k \notin {"dict", "absent"} THEN Raised("AttributeError")
        ELSE IF Truthy(ct) /\ ~Hashable(ct) THEN Raised("TypeError")
        ELSE IF Truthy(ct) /\ ~InAllowed(ct) THEN SkipWithInfo(ct)
        ELSE ExtractBody(content)

\* A message's content is [k, content_type, parts, text]: k = "dict" for a
\* mapping, "absent" for a missing key (read as {}), "null" or "str" for a
\* value that has no get method.
extract_message_content(message) ==
    LET content == message.content
        ct == content.content_type
    IN  IF content.k \notin {"dict", "absent"} THEN Raised("AttributeError")
        ELSE IF Truthy(ct) /\ ~Hashable(ct) THEN Raised("TypeError")
        ELSE IF Truthy(ct) /\ InSilent(ct) THEN Skip
        ELSE IF Truthy(ct) /\ ~InAllowed(ct) THEN SkipWithInfo(ct)
        ELSE ExtractBody(content)

(***************************************************************************)
(* Messages, nodes and the mapping.  A mapping is the ordered dict of the  *)
(* JSON file: a sequence of nodes [id, parent, children, message] with     *)
(* distinct ids, in key order.  A parent of NoNode is null or absent.      *)
(***************************************************************************)
NoNode == 0
\* A node id that is no key of any enumerated mapping.
DanglingId == MaxNodes + MaxBadNodes + 1

Content(ct, parts, text) ==
    [k |-> "dict", content_type |-> ct, parts |-> parts, text |-> text]
\* The content key is missing: message.get('content', {}) reads {}.
ContentAbsent ==
    [k |-> "absent", content_type |-> JAbsent, parts |-> JAbsent, text |-> JAbsent]
\* "content": null
ContentNull ==
    [k |-> "null", content_type |-> JAbsent, parts |-> JAbsent, text |-> JAbsent]
\* "content": "some string"
ContentStr ==
    [k |-> "str", content_type |-> JAbsent, parts |-> JAbsent, text |-> JAbsent]

Msg(role, content, ctime, slug) ==
    [k |-> "msg", role |-> role, content |-> content, create_time |-> ctime,
     model_slug |-> slug]
\* "message": null (or no message key)
NoMessage ==
    [k |-> "null", role |-> JAbsent, content |-> ContentAbsent,
     create_time |-> JNull, model_slug |-> JAbsent]

Node(id, parent, children, message) ==
    [id |-> id, parent |-> parent, children |-> children, message |-> message]

Ids(mapping) == {mapping[i].id : i \in 1..Len(mapping)}

\* mapping.get(node_id), for an id that is a key
NodeOf(mapping, id) == mapping[CHOOSE i \in 1..Len(mapping) : mapping[i].id = id]

(***************************************************************************)
(* build_turns, step 1: the first node, in key order, whose parent is None.*)
(***************************************************************************)
RECURSIVE FindRootFrom(_, _)
FindRootFrom(mapping, i) ==
    IF i > Len(mapping) THEN NoNode
    ELSE IF mapping[i].parent = NoNode THEN mapping[i].id
    ELSE FindRootFrom(mapping, i + 1)

\* A root search without the break of line 282: the last parentless node wins.
RECURSIVE FindRootNoBreak(_, _, _)
FindRootNoBreak(mapping, i, found) ==
    IF i > Len(mapping) THEN found
    ELSE FindRootNoBreak(mapping, i + 1,
                         IF mapping[i].parent = NoNode THEN mapping[i].id ELSE found)

FindRootLast(mapping) == FindRootNoBreak(mapping, 1, NoNode)

FindRoot(mapping) == FindRootFrom(mapping, 1)

(***************************************************************************)
(* build_turns.traverse.  One call of traverse(node_id) looks the node up, *)
(* records its message when the role is user or assistant and the content  *)
(* does not extract to None, and then calls traverse on each child in      *)
(* order.  The stack holds, per active call, the node and the index of the *)
(* next child to call.                                                     *)
(***************************************************************************)
Frame(id, next) == [node_id |-> id, next |-> next]

RoleRecorded(role) ==
    role.k = "str" /\ role.s \in { <<"u","s","e","r">>,
                                    <<"a","s","s","i","s","t","a","n","t">> }

Entry(node) ==
    [node_id |-> node.id, role |-> node.message.role.s,
     message |-> node.message, children |-> node.children]

\* Whether the call on this node reaches extract_message_content.
Extracts(node) == node.message.k = "msg" /\ RoleRecorded(node.message.role)

\* Lines 313-332: the entries the call appends to messages.
Recorded(node) ==
    IF Extracts(node) /\ extract_message_content(node.message).kind = "str"
    THEN <<Entry(node)>>
    ELSE <<>>

\* The INFO line a call of extract_message_content prints, tagged with the
\* node whose message was extracted (the tag is for observation only).
InfoLines(id, message) ==
    LET r == extract_message_content(message)
    IN  IF r.info.k = "absent" THEN <<>>
        ELSE <<[kind |-> "INFO", content_type |-> r.info, node_id |-> id]>>

\* One call of extract_message_content, as the history keeps it.
CallOf(id, message) ==
    [node_id |-> id, outcome |-> extract_message_content(message)]

\* The for loop of line 337 walking the children from the last to the first.
NextChildReversed(children, next) == children[Len(children) + 1 - next]

\* Line 337: the child the for loop hands to the next call.
NextChild(children, next) == children[next]

\* Return from every call whose for loop over children is exhausted.
RECURSIVE Unwind(_, _)
Unwind(mapping, stk) ==
    IF stk = <<>> THEN stk
    ELSE LET top == stk[Len(stk)]
         IN  IF top.next > Len(NodeOf(mapping, top.node_id).children)
             THEN Unwind(mapping, SubSeq(stk, 1, Len(stk) - 1))
             ELSE stk

(***************************************************************************)
(* build_turns, step 3: the grouping of the flattened list into Turns.     *)
(***************************************************************************)
IsUser(entry) == entry.role = <<"u","s","e","r">>
IsAssistant(entry) == entry.role = <<"a","s","s","i","s","t","a","n","t">>

\* The inner while loop leaving after its first round.
AssistantRunEndAfterOne(msgs, j) ==
    IF j <= Len(msgs) /\ IsAssistant(msgs[j]) THEN j + 1 ELSE j

\* The inner while loop: the index after the run of assistant entries from j.
RECURSIVE AssistantRunEnd(_, _)
AssistantRunEnd(msgs, j) ==
    IF j <= Len(msgs) /\ IsAssistant(msgs[j]) THEN AssistantRunEnd(msgs, j + 1) ELSE j

\* The outer while loop from index i with the Turns built so far.
RECURSIVE GroupFrom(_, _, _)
GroupFrom(msgs, i, acc) ==
    IF i > Len(msgs) THEN acc
    ELSE IF IsUser(msgs[i])
    THEN LET j == AssistantRunEnd(msgs, i + 1)
             turn == [turn_number |-> Len(acc), user |-> msgs[i],
                      assistants |-> SubSeq(msgs, i + 1, j - 1)]
         IN  GroupFrom(msgs, j, Append(acc, turn))
    ELSE GroupFrom(msgs, i + 1, acc)

\* The grouping with two slips: the scan resumes `skip` entries after the
\* assistant run (line 376), and a Turn is numbered by the position of its
\* user entry instead of len(turns) (line 354).
RECURSIVE GroupWithSlip(_, _, _, _, _)
GroupWithSlip(msgs, i, acc, skip, byPosition) ==
    IF i > Len(msgs) THEN acc
    ELSE IF IsUser(msgs[i])
    THEN LET j == AssistantRunEnd(msgs, i + 1)
             turn == [turn_number |-> IF byPosition THEN i - 1 ELSE Len(acc),
                      user |-> msgs[i],
                      assistants |-> SubSeq(msgs, i + 1, j - 1)]
         IN  GroupWithSlip(msgs, j + skip, Append(acc, turn), skip, byPosition)
    ELSE GroupWithSlip(msgs, i + 1, acc, skip, byPosition)

GroupTurnsSkipNext(msgs) == GroupWithSlip(msgs, 1, <<>>, 1, FALSE)
GroupTurnsNumberByPosition(msgs) == GroupWithSlip(msgs, 1, <<>>, 0, TRUE)

GroupTurns(msgs) == GroupFrom(msgs, 1, <<>>)

(***************************************************************************)
(* format_timestamp: "" for None, else the local time cut to the minute,   *)
(* as <<day, hour, minute>> (days since the epoch stand for the date).     *)
(***************************************************************************)
\* The converting process's offset from UTC, in seconds.
TzOffset == 9 * 3600

\* datetime.fromtimestamp keeps microseconds: the fraction is rounded to the
\* nearest microsecond, a tie to the even one.
Microseconds(frac) ==
    LET us == frac \div 10
        rest == frac % 10
    IN  IF rest > 5 \/ (rest = 5 /\ us % 2 = 1) THEN us + 1 ELSE us

\* The result is <<day, hour, minute>> of the local time ("%Y-%m-%dT%H:%M"
\* with the date as a day count), <<>> for the empty string.
format_timestamp(unix_time) ==
    IF IsNone(unix_time) THEN <<>>
    ELSE LET carry == IF Microseconds(unix_time.f) = 1000000 THEN 1 ELSE 0
             local == unix_time.n + carry + TzOffset
         IN  <<local \div 86400, (local % 86400) \div 3600, (local % 3600) \div 60>>

(***************************************************************************)
(* adjust_headings: one more "#" on every line whose first non-blank       *)
(* character is "#".                                                       *)
(***************************************************************************)
\* text.split('\n')
RECURSIVE SplitLines(_, _)
SplitLines(chars, cur) ==
    IF chars = <<>> THEN <<cur>>
    ELSE IF Head(chars) = "\n" THEN <<cur>> \o SplitLines(Tail(chars), <<>>)
    ELSE SplitLines(Tail(chars), Append(cur, Head(chars)))

\* '\n'.join(lines)
RECURSIVE JoinLines(_)
JoinLines(lines) ==
    IF Len(lines) = 0 THEN <<>>
    ELSE IF Len(lines) = 1 THEN lines[1]
    ELSE lines[1] \o <<"\n">> \o JoinLines(Tail(lines))

\* The number of leading "#" of a stripped line.
RECURSIVE HeadingLevel(_)
HeadingLevel(chars) ==
    IF chars # <<>> /\ Head(chars) = "#" THEN 1 + HeadingLevel(Tail(chars)) ELSE 0

Hashes(count) == [i \in 1..count |-> "#"]

\* Lines 107-124 without the indent of lines 123-124.
AdjustLineWithoutIndent(line) ==
    LET stripped == LStrip(line)
    IN  IF stripped # <<>> /\ Head(stripped) = "#"
        THEN <<"#">> \o stripped
        ELSE line

\* Lines 107-127: one round of the loop over the lines.
AdjustLine(line) ==
    LET stripped == LStrip(line)
    IN  IF stripped # <<>> /\ Head(stripped) = "#"
        THEN LET heading_level == HeadingLevel(stripped)
                 rest_of_line == SubSeq(stripped, heading_level + 1, Len(stripped))
                 indent == SubSeq(line, 1, Len(line) - Len(stripped))
             IN  indent \o Hashes(heading_level + 1) \o rest_of_line
        ELSE line

adjust_headings(text) ==
    IF text = <<>> THEN text
    ELSE LET lines == SplitLines(text, <<>>)
         IN  JoinLines([i \in 1..Len(lines) |-> AdjustLine(lines[i])])

(***************************************************************************)
(* generate_markdown, steps 4-7: the derived metadata.                     *)
(***************************************************************************)
\* Lines 444-456 with a loop that goes on to the Turn before when the
\* create_time it finds is None.
RECURSIVE LastMessageTimeNotNone(_)
LastMessageTimeNotNone(ts) ==
    IF ts = <<>> THEN JNull
    ELSE LET turn == ts[Len(ts)]
             found == IF turn.assistants # <<>>
                      THEN turn.assistants[Len(turn.assistants)].message.create_time
                      ELSE turn.user.message.create_time
         IN  IF IsNone(found) THEN LastMessageTimeNotNone(SubSeq(ts, 1, Len(ts) - 1))
             ELSE found

\* Lines 444-456: the loop over reversed(turns) leaves in its first round.
LastMessageTime(ts) ==
    LET turn == ts[Len(ts)]
    IN  IF turn.assistants # <<>>
        THEN turn.assistants[Len(turn.assistants)].message.create_time
        ELSE turn.user.message.create_time

\* int(x / 86400): Python's int() cuts towards zero.
IntDiv(a, b) == IF a >= 0 THEN a \div b ELSE -((-a) \div b)

\* last - first, cut towards zero to whole seconds.
WholeSeconds(first, last) ==
    LET seconds == last.n - first.n
        fraction == last.f - first.f
    IN  IF seconds > 0 \/ (seconds = 0 /\ fraction >= 0)
        THEN (IF fraction < 0 THEN seconds - 1 ELSE seconds)
        ELSE (IF fraction > 0 THEN seconds + 1 ELSE seconds)

\* Lines 459-464
DurationDays(first, last) ==
    IF Truthy(first) /\ Truthy(last) THEN IntDiv(WholeSeconds(first, last), 86400) ELSE 0

\* Line 473 counting every Turn.
TurnCountWithZero(ts) == Len(ts)

\* Line 473
ActualTurnCount(ts) == Cardinality({i \in 1..Len(ts) : ts[i].turn_number > 0})

Metadata(data, ts) ==
    LET first_message_time == data.create_time
        last_message_time == LastMessageTime(ts)
    IN  [title |-> data.title,
         date |-> format_timestamp(data.create_time),
         date_update |-> format_timestamp(data.update_time),
         first_message_date |-> format_timestamp(first_message_time),
         last_message_date |-> format_timestamp(last_message_time),
         duration_days |-> DurationDays(first_message_time, last_message_time),
         turn_count |-> ActualTurnCount(ts)]

NoMeta ==
    [title |-> JAbsent, date |-> <<>>, date_update |-> <<>>,
     first_message_date |-> <<>>, last_message_date |-> <<>>,
     duration_days |-> 0, turn_count |-> 0]

(***************************************************************************)
(* generate_markdown, step 8: the text of one Turn, as its lines.  A line  *)
(* is [t, n, text, ts, slug]: t names the line ("blank", "turn" for        *)
(* "# Turn NN", "user" for "## User", "chatgpt" for "## ChatGPT",          *)
(* "content" for a message's text, "rule" for "---", "model", "sent").     *)
(***************************************************************************)
Line(t) == [t |-> t, n |-> 0, text |-> <<>>, ts |-> <<>>, slug |-> JAbsent]
Blank == Line("blank")
Rule == Line("rule")
TurnHeading(number) == [Line("turn") EXCEPT !.n = number]
ContentLine(text) == [Line("content") EXCEPT !.text = text]
SentLine(ts) == [Line("sent") EXCEPT !.ts = ts]
ModelLine(slug) == [Line("model") EXCEPT !.slug = slug]

\* extract_message_content(...) with None replaced by ""
ContentOrEmpty(message) ==
    LET r == extract_message_content(message)
    IN  IF r.kind = "str" THEN r.text ELSE <<>>

\* metadata.get('model_slug', '')
ModelSlug(message) ==
    IF message.model_slug.k = "absent" THEN JStr(<<>>) ELSE message.model_slug

\* Line 543
UserSection(message) ==
    << Blank, Line("user"), Blank,
       ContentLine(adjust_headings(ContentOrEmpty(message))),
       Blank, Rule, Blank,
       SentLine(format_timestamp(message.create_time)),
       Blank, Rule >>

\* Lines 552-590 without the test of line 587.
AssistantSectionAlwaysStamped(message) ==
    << Blank, Line("chatgpt"), Blank,
       ContentLine(adjust_headings(ContentOrEmpty(message))), Blank, Rule,
       Blank, ModelLine(ModelSlug(message)),
       SentLine(format_timestamp(message.create_time)), Blank, Rule >>

\* Lines 552-590: one round of the loop over turn['assistants']
AssistantSection(message) ==
    LET assistant_content == adjust_headings(ContentOrEmpty(message))
    IN  << Blank, Line("chatgpt"), Blank, ContentLine(assistant_content), Blank, Rule >>
        \o (IF assistant_content # <<>>
            THEN << Blank, ModelLine(ModelSlug(message)),
                    SentLine(format_timestamp(message.create_time)) >>
            ELSE <<>>)
        \o << Blank, Rule >>

\* The loop of line 551 rendering the last branch only.
AssistantSectionsLastOnly(entries) ==
    AssistantSection(entries[Len(entries)].message)

RECURSIVE AssistantSections(_)
AssistantSections(entries) ==
    IF entries = <<>> THEN <<>>
    ELSE AssistantSection(Head(entries).message) \o AssistantSections(Tail(entries))

\* Line 601 with a send time line.
EmptyResponseStamped ==
    << Blank, Line("chatgpt"), Blank, Rule, Blank, SentLine(<<>>), Blank, Rule >>

\* Line 601
EmptyResponse == << Blank, Line("chatgpt"), Blank, Rule, Blank, Rule >>

\* Lines 514-601
TurnText(turn) ==
    << Blank, TurnHeading(turn.turn_number) >>
    \o UserSection(turn.user.message)
    \o (IF turn.assistants # <<>> THEN AssistantSections(turn.assistants)
        ELSE EmptyResponse)

\* Lines 503-509 leaving Turn 0 out whatever its user message holds.
TurnZeroOmitted(turn) == turn.turn_number = 0

\* Lines 503-509: Turn 0 is left out when its user message extracts to None.
TurnOmitted(turn) ==
    turn.turn_number = 0 /\ extract_message_content(turn.user.message).kind = "none"

\* "\n".join(body_parts)
RECURSIVE JoinParts(_)
JoinParts(parts) ==
    IF Len(parts) = 0 THEN <<>>
    ELSE IF Len(parts) = 1 THEN parts[1]
    ELSE parts[1] \o <<Blank>> \o JoinParts(Tail(parts))

\* Line 608
Markdown(m, parts) ==
    [yaml |-> m,
     header |-> [title |-> m.title, first |-> m.first_message_date,
                 last |-> m.last_message_date, duration_days |-> m.duration_days,
                 turn_count |-> m.turn_count],
     body |-> JoinParts(parts)]

\* The output target does not exist.
NoFile == [exists |-> FALSE, doc |-> Markdown(NoMeta, <<>>)]
\* Lines 622-623
Written(doc) == [exists |-> TRUE, doc |-> doc]
\* The output target exists already and holds something else.
OldFile == Written(Markdown([NoMeta EXCEPT !.title = JStr(<<"o","l","d">>)], <<>>))

(***************************************************************************)
(* The conversations the model runs on.                                    *)
(***************************************************************************)
Chars_hi == <<"h","i">>
Chars_text == <<"t","e","x","t">>

TextContent(chars) == Content(JStr(Chars_text), JList(<<JStr(chars)>>), JAbsent)

\* The messages of the enumerated trees, by letter.  The create_time is
\* taken from the node id so that messages can be told apart.
PaletteMsg(letter, id) ==
    CASE letter = "U" ->
           Msg(JStr(<<"u","s","e","r">>), TextContent(<<" ","h","i"," ">>),
               JNum(60 * id), JAbsent)
      [] letter = "A" ->
           Msg(JStr(<<"a","s","s","i","s","t","a","n","t">>),
               TextContent(<<"#"," ","o","k">>), JNum(60 * id), JStr(<<"g","4">>))
      [] letter = "Q" ->
           Msg(JStr(<<"a","s","s","i","s","t","a","n","t">>),
               Content(JStr(<<"t","e","t","h","e","r","_","q","u","o","t","e">>),
                       JList(<<JStr(<<"q">>)>>), JAbsent),
               JNum(60 * id), JAbsent)
      [] OTHER -> NoMessage

\* "N" is a node without a message, "Q" an assistant message of an
\* unrecognized content type.
TreePalette == {"U", "A", "Q", "N"}
BadPalette == {"U", "A"}

\* The elements of a finite set of numbers, ascending.
RECURSIVE Ascending(_)
Ascending(S) ==
    IF S = {} THEN <<>>
    ELSE LET least == CHOOSE x \in S : \A y \in S : x <= y
         IN  <<least>> \o Ascending(S \ {least})

Reverse(seq) == [i \in 1..Len(seq) |-> seq[Len(seq) + 1 - i]]

\* The mapping with the given key order, parents and letters, each node's
\* children being the nodes that name it as parent, ascending.
MappingOf(order, parent, letters) ==
    [i \in 1..Len(order) |->
        LET id == order[i]
        IN  Node(id, parent[id],
                 Ascending({c \in DOMAIN parent : parent[c] = id /\ c # id}),
                 PaletteMsg(letters[id], id))]

Conversation(ctime, mapping) ==
    [named |-> TRUE, exists |-> TRUE, title |-> JStr(<<"T">>), create_time |-> ctime,
     update_time |-> JNum(5000), mapping |-> mapping]

\* Tree-shaped mappings: node 1 is the root and every other node's parent
\* has a smaller id, so every ordered tree occurs up to the naming of nodes.
TreeParents(count) ==
    {p \in [1..count -> 0..(count - 1)] :
        p[1] = NoNode /\ \A c \in 2..count : p[c] >= 1 /\ p[c] < c}

TreeInput(count, p, a) ==
    Conversation(JNum(30), MappingOf(Ascending(1..count), p, a))

\* Chains of user and assistant messages.
ChainInput(count, a) ==
    Conversation(JNum(30),
                 MappingOf(Ascending(1..count), [c \in 1..count |-> c - 1], a))

\* A conversation longer than the recursion limit: user and assistant
\* messages in turn, each the only child of the one before.
DeepInput ==
    ChainInput(RecursionLimit + 1,
               [c \in 1..(RecursionLimit + 1) |-> IF c % 2 = 1 THEN "U" ELSE "A"])

\* Malformed mappings: any parent field (null, another node, a missing
\* node), keys in ascending or descending order.
BadParents(count) ==
    {p \in [1..count -> (0..count) \cup {DanglingId}] : \A c \in 1..count : p[c] # c}

BadInput(count, descending, p, a) ==
    Conversation(JNum(30),
                 MappingOf(IF descending THEN Reverse(Ascending(1..count))
                           ELSE Ascending(1..count), p, a))

\* Mappings with a child reference that no parent field matches: a tree
\* in which one node lists one more child, first or last, which is a
\* missing node, a node listed elsewhere too, or one of its own ancestors.
WithExtraChild(mapping, id, target, first) ==
    [i \in 1..Len(mapping) |->
        IF mapping[i].id = id
        THEN [mapping[i] EXCEPT !.children =
                 IF first THEN <<target>> \o @ ELSE Append(@, target)]
        ELSE mapping[i]]

ExtraRefInput(count, p, a, id, target, first) ==
    Conversation(JNum(30),
                 WithExtraChild(MappingOf(Ascending(1..count), p, a), id, target, first))

\* One message of any shape, on node 3 of the chain 1 - 2 - 3 - 4 whose
\* node 2 is a user message and node 4 an assistant message.
RichRoles ==
    { JStr(<<"u","s","e","r">>), JStr(<<"a","s","s","i","s","t","a","n","t">>),
      JStr(<<"s","y","s","t","e","m">>), JStr(<<"t","o","o","l">>) }

RichContentTypes ==
    { JAbsent, JStr(<<>>), JStr(Chars_text), JStr(<<"t","h","o","u","g","h","t","s">>),
      JStr(<<"u","s","e","r","_","e","d","i","t","a","b","l","e","_","c","o","n","t","e","x","t">>),
      JStr(<<"a","p","p","_","p","a","i","r","i","n","g","_","c","o","n","t","e","n","t">>),
      JStr(<<"t","e","t","h","e","r","_","q","u","o","t","e">>),
      JNum(5), JList(<<JStr(Chars_text)>>) }

RichParts ==
    { JAbsent, JNull, JStr(Chars_hi), JList(<<>>),
      JList(<<JStr(Chars_hi)>>), JList(<<JStr(<<" ">>)>>),
      JList(<<JObj, JStr(<<" ","h","i","\n">>)>>), JList(<<JObj>>),
      JList(<<JStr(<<>>), JStr(<<"a">>), JStr(<<"b">>)>>) }

RichTexts == { JAbsent, JStr(<<>>), JStr(<<" ">>), JStr(<<" ","y","o"," ">>), JNum(7) }

RichContents ==
    {ContentAbsent, ContentNull, ContentStr}
    \cup {Content(ct, parts, text) :
            ct \in RichContentTypes, parts \in RichParts, text \in RichTexts}

RichInput(role, content) ==
    Conversation(JNum(30),
        << Node(1, NoNode, <<2>>, NoMessage),
           Node(2, 1, <<3>>, PaletteMsg("U", 2)),
           Node(3, 2, <<4>>, Msg(role, content, JNum(180), JStr(<<"g","4">>))),
           Node(4, 3, <<>>, PaletteMsg("A", 4)) >>)

\* Conversations that differ in their times: the record's create_time and
\* the create_time of each message, on a root without a message followed
\* by user, assistant, user (the last Turn without a response) or by a user
\* message with two responses.
ConvTimes == { JNull, JNum(0), JNum(600), JNum(259200) }
MsgTimes == { JAbsent, JNull, JNum(0), JNum(660), JFloat(172799, 5000000) }

TimedMsg(letter, time) == [PaletteMsg(letter, 0) EXCEPT !.create_time = time]

TimedInput(branches, ctime, t2, t3, t4) ==
    Conversation(ctime,
        IF branches
        THEN << Node(1, NoNode, <<2>>, NoMessage),
                Node(2, 1, <<3, 4>>, TimedMsg("U", t2)),
                Node(3, 2, <<>>, TimedMsg("A", t3)),
                Node(4, 2, <<>>, TimedMsg("A", t4)) >>
        ELSE << Node(1, NoNode, <<2>>, NoMessage),
                Node(2, 1, <<3>>, TimedMsg("U", t2)),
                Node(3, 2, <<4>>, TimedMsg("A", t3)),
                Node(4, 3, <<>>, TimedMsg("U", t4)) >>)

\* The file named on the command line does not exist.
MissingInput ==
    [named |-> TRUE, exists |-> FALSE, title |-> JAbsent, create_time |-> JNull,
     update_time |-> JNull, mapping |-> <<>>]

\* The command line names no file.
NoArgument == [MissingInput EXCEPT !.named = FALSE]

IsInput(v) ==
    \/ \E count \in 1..MaxNodes :
         \E p \in TreeParents(count), a \in [1..count -> TreePalette] :
            v = TreeInput(count, p, a)
    \/ \E count \in (MaxNodes + 1)..MaxChain :
         \E a \in [1..count -> BadPalette] : v = ChainInput(count, a)
    \/ \E count \in 1..MaxBadNodes, descending \in BOOLEAN :
         \E p \in BadParents(count), a \in [1..count -> BadPalette] :
            v = BadInput(count, descending, p, a)
    \/ \E count \in 1..MaxBadNodes :
         \E p \in TreeParents(count), a \in [1..count -> BadPalette],
            id \in 1..count, target \in (1..count) \cup {DanglingId},
            first \in BOOLEAN :
            v = ExtraRefInput(count, p, a, id, target, first)
    \/ \E role \in RichRoles, content \in RichContents : v = RichInput(role, content)
    \/ \E branches \in BOOLEAN, ctime \in ConvTimes, t2 \in MsgTimes, t3 \in MsgTimes,
          t4 \in MsgTimes : v = TimedInput(branches, ctime, t2, t3, t4)
    \/ v = DeepInput
    \/ v = MissingInput
    \/ v = NoArgument

(***************************************************************************)
(* The run of generate_markdown.                                           *)
(***************************************************************************)
NoResult == [kind |-> "none", value |-> ""]
Return(value) == [kind |-> "return", value |-> value]
Raise(exception) == [kind |-> "raise", value |-> exception]

\* The process is running / has ended with a status.
\* batch_convert and split_conversations not started.
NoBatch ==
    [input |-> "unnamed", entries |-> <<>>, out |-> <<>>, json_files |-> <<>>,
     i |-> 0, success_count |-> 0, warning_count |-> 0, error_count |-> 0,
     info_file_count |-> 0, no_output_count |-> 0, error_files |-> <<>>,
     log_entries |-> <<>>, log_file |-> [exists |-> FALSE, entries |-> <<>>],
     terminal |-> <<>>, attempted |-> <<>>]

NoSplit ==
    [run |-> 0, named |-> FALSE, exists |-> FALSE, data |-> <<>>, files |-> {},
     index_file |-> [exists |-> FALSE, run |-> 0, entries |-> <<>>],
     i |-> 0, index_data |-> <<>>, success_count |-> 0, error_count |-> 0,
     terminal |-> <<>>, written |-> <<>>,
     overwritten |-> [files |-> {}, index |-> FALSE]]

Running == [exited |-> FALSE, status |-> 0]
Exit(status) == [exited |-> TRUE, status |-> status]

\* A line of main on the standard output.
MainLine(kind) == [kind |-> kind, content_type |-> JAbsent, node_id |-> NoNode]

\* The state of a process at its start.
Fresh ==
    /\ root_id = NoNode
    /\ stack = <<>>
    /\ messages = <<>>
    /\ turns = <<>>
    /\ stdout = <<>>
    /\ calls = <<>>
    /\ meta = NoMeta
    /\ body_parts = <<>>
    /\ tix = 1
    /\ result = NoResult
    /\ exit_code = Running

Init ==
    /\ IsInput(input)
    /\ pc = "start"
    /\ Fresh
    /\ outFile = NoFile
    /\ earlier = <<>>
    /\ arg = <<>>
    /\ ret = <<>>
    /\ batch = NoBatch
    /\ split = NoSplit

\* Lines 646-652: without a file name main prints the usage and exits.
Usage ==
    /\ pc = "start"
    /\ ~input.named
    /\ stdout' = Append(stdout, MainLine("USAGE"))
    /\ exit_code' = Exit(1)
    /\ pc' = "exited"
    /\ UNCHANGED <<input, root_id, stack, messages, turns, calls, meta,
                   body_parts, tix, outFile, result, earlier, arg, ret, batch, split>>

\* Lines 406-429: the file is read; a missing file raises.
Load ==
    /\ pc = "start"
    /\ input.named
    /\ IF input.exists
       THEN pc' = "find_root" /\ result' = result
       ELSE pc' = "raised" /\ result' = Raise("FileNotFoundError")
    /\ UNCHANGED <<input, root_id, stack, messages, turns, stdout, calls, meta,
                   body_parts, tix, outFile,
                   exit_code, earlier, arg, ret, batch, split>>

\* Lines 277-286: the root search; no root returns [] from build_turns.
FindRootStep ==
    /\ pc = "find_root"
    /\ root_id' = FindRoot(input.mapping)
    /\ pc' = IF root_id' = NoNode THEN "check_turns" ELSE "call_root"
    /\ UNCHANGED <<input, stack, messages, turns, stdout, calls, meta,
                   body_parts, tix, outFile, result,
                   exit_code, earlier, arg, ret, batch, split>>

\* The call without the check of lines 307-310: a missing id is looked up
\* in the mapping.
EnterWithoutGuard(id, stk) ==
    IF Len(stk) >= RecursionLimit
    THEN /\ pc' = "raised"
         /\ result' = Raise("RecursionError")
         /\ UNCHANGED <<stack, messages, stdout, calls>>
    ELSE IF id \notin Ids(input.mapping)
    THEN /\ pc' = "raised"
         /\ result' = Raise("KeyError")
         /\ UNCHANGED <<stack, messages, stdout, calls>>
    ELSE LET node == NodeOf(input.mapping, id)
             outcome == extract_message_content(node.message)
         IN  IF Extracts(node) /\ outcome.kind = "raise"
             THEN /\ pc' = "raised"
                  /\ result' = Raise(outcome.exc)
                  /\ calls' = Append(calls, CallOf(id, node.message))
                  /\ UNCHANGED <<stack, messages, stdout>>
             ELSE /\ messages' = messages \o Recorded(node)
                  /\ stdout' = stdout \o (IF Extracts(node)
                                          THEN InfoLines(id, node.message) ELSE <<>>)
                  /\ calls' = calls \o (IF Extracts(node)
                                        THEN <<CallOf(id, node.message)>> ELSE <<>>)
                  /\ stack' = Unwind(input.mapping, Append(stk, Frame(id, 1)))
                  /\ pc' = IF stack' = <<>> THEN "group" ELSE "traverse"
                  /\ result' = result

\* One call traverse(id) made with the frames stk below it, and the returns
\* that follow it up to the next call.
Enter(id, stk) ==
    IF Len(stk) >= RecursionLimit
    THEN /\ pc' = "raised"
         /\ result' = Raise("RecursionError")
         /\ UNCHANGED <<stack, messages, stdout, calls>>
    ELSE IF id \notin Ids(input.mapping)
    THEN /\ stack' = Unwind(input.mapping, stk)
         /\ pc' = IF stack' = <<>> THEN "group" ELSE "traverse"
         /\ UNCHANGED <<messages, stdout, calls, result>>
    ELSE LET node == NodeOf(input.mapping, id)
             outcome == extract_message_content(node.message)
         IN  IF Extracts(node) /\ outcome.kind = "raise"
             THEN /\ pc' = "raised"
                  /\ result' = Raise(outcome.exc)
                  /\ calls' = Append(calls, CallOf(id, node.message))
                  /\ UNCHANGED <<stack, messages, stdout>>
             ELSE /\ messages' = messages \o Recorded(node)
                  /\ stdout' = stdout \o (IF Extracts(node)
                                          THEN InfoLines(id, node.message) ELSE <<>>)
                  /\ calls' = calls \o (IF Extracts(node)
                                        THEN <<CallOf(id, node.message)>> ELSE <<>>)
                  /\ stack' = Unwind(input.mapping, Append(stk, Frame(id, 1)))
                  /\ pc' = IF stack' = <<>> THEN "group" ELSE "traverse"
                  /\ result' = result

\* Line 341: traverse(root_id)
TraverseRoot ==
    /\ pc = "call_root"
    /\ Enter(root_id, <<>>)
    /\ UNCHANGED <<input, root_id, turns, meta, body_parts, tix, outFile,
                   exit_code, earlier, arg, ret, batch, split>>

\* Lines 336-338: the next round of the innermost active for loop.
TraverseChild ==
    /\ pc = "traverse"
    /\ LET top == stack[Len(stack)]
           children == NodeOf(input.mapping, top.node_id).children
       IN  Enter(NextChild(children, top.next),
                 [stack EXCEPT ![Len(stack)] = Frame(top.node_id, top.next + 1)])
    /\ UNCHANGED <<input, root_id, turns, meta, body_parts, tix, outFile,
                   exit_code, earlier, arg, ret, batch, split>>

\* Lines 345-382
Group ==
    /\ pc = "group"
    /\ turns' = GroupTurns(messages)
    /\ pc' = "check_turns"
    /\ UNCHANGED <<input, root_id, stack, messages, stdout, calls, meta,
                   body_parts, tix, outFile, result,
                   exit_code, earlier, arg, ret, batch, split>>

\* Lines 433-435 leaving an empty document behind when there is no Turn.
CheckTurnsWritesEmpty ==
    /\ pc = "check_turns"
    /\ IF turns = <<>>
       THEN /\ stdout' = Append(stdout, [kind |-> "WARNING", content_type |-> JAbsent,
                                         node_id |-> NoNode])
            /\ result' = Return("")
            /\ outFile' = Written(Markdown(NoMeta, <<>>))
            /\ pc' = "done"
       ELSE /\ pc' = "metadata"
            /\ UNCHANGED <<stdout, result, outFile>>
    /\ UNCHANGED <<input, root_id, stack, messages, turns, calls, meta,
                   body_parts, tix, exit_code, earlier, arg, ret, batch, split>>

\* Lines 433-435: no Turn, no document.
CheckTurns ==
    /\ pc = "check_turns"
    /\ IF turns = <<>>
       THEN /\ stdout' = Append(stdout, [kind |-> "WARNING", content_type |-> JAbsent,
                                         node_id |-> NoNode])
            /\ result' = Return("")
            /\ pc' = "done"
       ELSE /\ pc' = "metadata"
            /\ UNCHANGED <<stdout, result>>
    /\ UNCHANGED <<input, root_id, stack, messages, turns, calls, meta,
                   body_parts, tix, outFile,
                   exit_code, earlier, arg, ret, batch, split>>

\* Lines 442-494
ComputeMetadata ==
    /\ pc = "metadata"
    /\ meta' = Metadata(input, turns)
    /\ pc' = "body"
    /\ UNCHANGED <<input, root_id, stack, messages, turns, stdout, calls,
                   body_parts, tix, outFile, result,
                   exit_code, earlier, arg, ret, batch, split>>

\* The INFO lines of the calls of extract_message_content on these entries.
RECURSIVE InfoOfEntries(_)
InfoOfEntries(entries) ==
    IF entries = <<>> THEN <<>>
    ELSE InfoLines(Head(entries).node_id, Head(entries).message)
         \o InfoOfEntries(Tail(entries))

CallsOfEntries(entries) ==
    [i \in 1..Len(entries) |-> CallOf(entries[i].node_id, entries[i].message)]

\* The calls of extract_message_content of one round of the body loop:
\* line 506 for Turn 0, then lines 520 and 555 unless the Turn is left out.
ExtractedInRound(turn) ==
    (IF turn.turn_number = 0 THEN <<turn.user>> ELSE <<>>)
    \o (IF TurnOmitted(turn) THEN <<>> ELSE <<turn.user>> \o turn.assistants)

\* Lines 500-604: one round of the loop over turns.
RenderTurn ==
    /\ pc = "body"
    /\ tix <= Len(turns)
    /\ LET turn == turns[tix]
       IN  /\ body_parts' = IF TurnOmitted(turn) THEN body_parts
                            ELSE Append(body_parts, TurnText(turn))
           /\ stdout' = stdout \o InfoOfEntries(ExtractedInRound(turn))
           /\ calls' = calls \o CallsOfEntries(ExtractedInRound(turn))
    /\ tix' = tix + 1
    /\ UNCHANGED <<input, pc, root_id, stack, messages, turns, meta, outFile, result,
                   exit_code, earlier, arg, ret, batch, split>>

\* Lines 608-626 with the file opened for appending.
WriteOutputAppends ==
    /\ pc = "body"
    /\ tix > Len(turns)
    /\ outFile' = Written([Markdown(meta, body_parts) EXCEPT
                              !.body = (IF outFile.exists THEN outFile.doc.body
                                        ELSE <<>>) \o @])
    /\ result' = Return("output_file")
    /\ pc' = "done"
    /\ UNCHANGED <<input, root_id, stack, messages, turns, stdout, calls, meta,
                   body_parts, tix, exit_code, earlier, arg, ret, batch, split>>

\* Lines 608-626
WriteOutput ==
    /\ pc = "body"
    /\ tix > Len(turns)
    /\ outFile' = Written(Markdown(meta, body_parts))
    /\ result' = Return("output_file")
    /\ pc' = "done"
    /\ UNCHANGED <<input, root_id, stack, messages, turns, stdout, calls, meta,
                   body_parts, tix,
                   exit_code, earlier, arg, ret, batch, split>>

\* Lines 661-669 without the sys.exit(1) of line 669.
ReportWithoutExit ==
    /\ pc \in {"done", "raised"}
    /\ stdout' = Append(stdout, MainLine(IF pc = "done" THEN "COMPLETE" ELSE "ERROR"))
    /\ exit_code' = Exit(0)
    /\ pc' = "exited"
    /\ UNCHANGED <<input, root_id, stack, messages, turns, calls, meta,
                   body_parts, tix, outFile, result, earlier, arg, ret, batch, split>>

\* Lines 661-669: main reports how generate_markdown ended; an exception
\* ends the process with status 1.
Report ==
    /\ pc \in {"done", "raised"}
    /\ IF pc = "done"
       THEN stdout' = Append(stdout, MainLine("COMPLETE")) /\ exit_code' = Exit(0)
       ELSE stdout' = Append(stdout, MainLine("ERROR")) /\ exit_code' = Exit(1)
    /\ pc' = "exited"
    /\ UNCHANGED <<input, root_id, stack, messages, turns, calls, meta,
                   body_parts, tix, outFile, result, earlier, arg, ret, batch, split>>

\* How a run ended, as the history keeps it.
Ended == [outFile |-> outFile, result |-> result, exit_code |-> exit_code,
          stdout |-> stdout]

\* The command is run again with the same arguments: a new process, the
\* files as the run before left them.
Rerun ==
    /\ pc = "exited"
    /\ Len(earlier) + 1 < MaxRuns
    /\ earlier' = Append(earlier, Ended)
    /\ pc' = "start"
    /\ root_id' = NoNode
    /\ stack' = <<>>
    /\ messages' = <<>>
    /\ turns' = <<>>
    /\ stdout' = <<>>
    /\ calls' = <<>>
    /\ meta' = NoMeta
    /\ body_parts' = <<>>
    /\ tix' = 1
    /\ result' = NoResult
    /\ exit_code' = Running
    /\ UNCHANGED <<input, outFile, arg, ret, batch, split>>

Next ==
    \/ Usage
    \/ Load
    \/ FindRootStep
    \/ TraverseRoot
    \/ TraverseChild
    \/ Group
    \/ CheckTurns
    \/ ComputeMetadata
    \/ RenderTurn
    \/ WriteOutput
    \/ Report

Spec == Init /\ [][Next]_vars

(***************************************************************************)
(* The command run up to MaxRuns times on the same file, the output target *)
(* existing or not before the first run.                                   *)
(***************************************************************************)
InitAgain ==
    /\ IsInput(input)
    /\ pc = "start"
    /\ Fresh
    /\ outFile \in {NoFile, OldFile}
    /\ earlier = <<>>
    /\ arg = <<>>
    /\ ret = <<>>
    /\ batch = NoBatch
    /\ split = NoSplit

NextAgain ==
    \/ Usage
    \/ Load
    \/ FindRootStep
    \/ TraverseRoot
    \/ TraverseChild
    \/ Group
    \/ CheckTurns
    \/ ComputeMetadata
    \/ RenderTurn
    \/ WriteOutput
    \/ Report
    \/ Rerun

SpecAgain == InitAgain /\ [][NextAgain]_vars

(***************************************************************************)
(* adjust_headings run on its own over the texts of up to MaxTextLen       *)
(* characters and a text with a fenced code block.                         *)
(***************************************************************************)
\* No command is running: the variables of the command stay as they are.
Parked ==
    /\ input = NoArgument
    /\ Fresh
    /\ outFile = NoFile
    /\ earlier = <<>>

TextAlphabet == {"#", " ", "\t", "a", "\n", "\r"}

Texts == UNION { [1..len -> TextAlphabet] : len \in 0..MaxTextLen }

\* A fenced code block with an indented heading-like line in it.
FencedText ==
    << "~","~","~","\n", " "," ","#"," ","a","\n", "~","~","~" >>

InitHeadings ==
    /\ arg \in Texts \cup {FencedText}
    /\ ret = <<>>
    /\ pc = "adjust_headings"
    /\ Parked
    /\ batch = NoBatch
    /\ split = NoSplit

CallAdjustHeadings ==
    /\ pc = "adjust_headings"
    /\ ret' = adjust_headings(arg)
    /\ pc' = "returned"
    /\ UNCHANGED <<input, root_id, stack, messages, turns, stdout, calls, meta,
                   body_parts, tix, outFile, result, exit_code, earlier, arg, batch, split>>

SpecHeadings == InitHeadings /\ [][CallAdjustHeadings]_vars

(***************************************************************************)
(* format_timestamp run on its own over None and the epoch values of up to *)
(* MaxSeconds whole seconds before and after 0, with fractions around the  *)
(* half microsecond.                                                       *)
(***************************************************************************)
Fractions == { 0, 4, 5, 15, 5000000, 9999994, 9999995, 9999996 }

EpochValues ==
    { JFloat(whole, frac) : whole \in (0 - MaxSeconds)..MaxSeconds, frac \in Fractions }

InitTimestamp ==
    /\ arg \in {JNull} \cup EpochValues
    /\ ret = <<>>
    /\ pc = "format_timestamp"
    /\ Parked
    /\ batch = NoBatch
    /\ split = NoSplit

CallFormatTimestamp ==
    /\ pc = "format_timestamp"
    /\ ret' = format_timestamp(arg)
    /\ pc' = "returned"
    /\ UNCHANGED <<input, root_id, stack, messages, turns, stdout, calls, meta,
                   body_parts, tix, outFile, result, exit_code, earlier, arg, batch, split>>

SpecTimestamp == InitTimestamp /\ [][CallFormatTimestamp]_vars

(***************************************************************************)
(* batch_convert.py: every conversation file below a directory converted   *)
(* by generate_markdown, failures counted and logged.                      *)
(***************************************************************************)
\* What one call generate_markdown(json_file, output_file) does, as its
\* caller sees it: the lines it prints (line 199 per skipped content type,
\* line 434 when no Turn was built), whether it raises, and whether it
\* writes the output file (lines 622-623).
InfoLine == [level |-> "INFO", text |-> "content_type skipped"]
WarningLine == [level |-> "WARNING", text |-> "no message found"]

Conversions ==
    {"turns", "info_turns", "no_turns", "info_no_turns", "raises", "info_raises"}

generate_markdown(kind) ==
    [printed |-> (IF kind \in {"info_turns", "info_no_turns", "info_raises"}
                  THEN <<InfoLine>> ELSE <<>>)
                 \o (IF kind \in {"no_turns", "info_no_turns"}
                     THEN <<WarningLine>> ELSE <<>>),
     raised |-> kind \in {"raises", "info_raises"},
     written |-> kind \in {"turns", "info_turns"}]

\* The entries below the input directory, in the order rglob yields them:
\* a file with another suffix, an index.json, or a .json file and what its
\* conversion does. An entry is named by its position.
DirEntries ==
    {[json |-> FALSE, index |-> FALSE, does |-> "raises"],
     [json |-> TRUE, index |-> TRUE, does |-> "raises"]}
    \cup {[json |-> TRUE, index |-> FALSE, does |-> kind] : kind \in Conversions}

\* Lines 105-110: the .json entries other than index.json, in rglob order.
RECURSIVE Discover(_, _)
Discover(entries, from) ==
    IF from > Len(entries) THEN <<>>
    ELSE (IF entries[from].json /\ ~entries[from].index THEN <<from>> ELSE <<>>)
         \o Discover(entries, from + 1)

\* Lines 181-191: the log entries of the captured lines, the level first.
LogOf(file, captured) ==
    [k \in 1..Len(captured) |->
        [level |-> captured[k].level, file |-> file, text |-> captured[k].text]]

\* Any captured line counting as a warning.
HasWarningAnyLine(captured) == captured # <<>>

\* Lines 180-194: has_warning, set by a captured line that holds 'INFO:'.
HasWarning(captured) ==
    \E k \in 1..Len(captured) : captured[k].level = "INFO"

\* The except clause without its count.
CountErrorLogOnly(b, file) ==
    [b EXCEPT !.log_entries = Append(@, [level |-> "ERROR", file |-> file,
                                         text |-> "exception"])]

\* Lines 208-224: the except clause.
CountError(b, file) ==
    [b EXCEPT !.error_count = @ + 1,
              !.error_files = Append(@, file),
              !.log_entries = Append(@, [level |-> "ERROR", file |-> file,
                                         text |-> "exception"])]

\* Lines 172-206: the rest of the try block after generate_markdown returned.
CountSuccess(b, file, outcome, i) ==
    LET warned == HasWarning(outcome.printed)
        counted ==
            [b EXCEPT !.out[file] = IF outcome.written THEN "new" ELSE @,
                      !.no_output_count = IF outcome.printed = <<>> THEN @ + 1 ELSE @,
                      !.log_entries = @ \o LogOf(file, outcome.printed),
                      !.success_count = @ + 1,
                      !.warning_count = IF warned THEN @ + 1 ELSE @,
                      !.info_file_count = IF warned THEN @ + 1 ELSE @]
    IN  IF i % 10 = 0 \/ i = Len(b.json_files)
        THEN [counted EXCEPT !.terminal =
                 Append(@, [line |-> "progress", i |-> i,
                            success |-> counted.success_count,
                            warning |-> counted.warning_count,
                            error |-> counted.error_count])]
        ELSE counted

InitBatch ==
    /\ \E entries \in UNION {[1..len -> DirEntries] : len \in 0..MaxEntries} :
          \E out \in [1..Len(entries) -> {"none", "old"}],
             kind \in {"unnamed", "missing", "file", "dir"} :
             /\ kind # "dir" => entries = <<>>
             /\ batch = [NoBatch EXCEPT !.input = kind, !.entries = entries,
                                        !.out = out]
    /\ split = NoSplit
    /\ pc = "batch_main"
    /\ Parked
    /\ arg = <<>>
    /\ ret = <<>>

\* main, lines 299-308: fewer than two arguments.
BatchUsage ==
    /\ pc = "batch_main"
    /\ batch.input = "unnamed"
    /\ batch' = [batch EXCEPT !.terminal = Append(@, [line |-> "usage"])]
    /\ exit_code' = Exit(1)
    /\ pc' = "exited"
    /\ UNCHANGED <<input, root_id, stack, messages, turns, stdout, calls, meta,
                   body_parts, tix, outFile, result, earlier, arg, ret, split>>

\* Lines 79-117: the checks of the input directory and the search.
BatchSearch ==
    /\ pc = "batch_main"
    /\ batch.input # "unnamed"
    /\ IF batch.input # "dir"
       THEN /\ batch' = [batch EXCEPT !.terminal = Append(@, [line |-> "error"])]
            /\ exit_code' = Exit(1)
            /\ pc' = "exited"
       ELSE LET found == Discover(batch.entries, 1)
            IN  /\ batch' = [batch EXCEPT
                                !.json_files = found,
                                !.i = 1,
                                !.terminal = IF found = <<>>
                                             THEN Append(@, [line |-> "nothing to convert"])
                                             ELSE @]
                /\ pc' = IF found = <<>> THEN "returned" ELSE "batch_loop"
                /\ UNCHANGED exit_code
    /\ UNCHANGED <<input, root_id, stack, messages, turns, stdout, calls, meta,
                   body_parts, tix, outFile, result, earlier, arg, ret, split>>

\* Lines 134-224: one round of the loop over json_files.
BatchConvert ==
    /\ pc = "batch_loop"
    /\ LET file == batch.json_files[batch.i]
           outcome == generate_markdown(batch.entries[file].does)
           counted == IF outcome.raised
                      THEN CountError(batch, file)
                      ELSE CountSuccess(batch, file, outcome, batch.i)
       IN  /\ batch' = [counted EXCEPT !.i = @ + 1,
                                       !.attempted = Append(@, file)]
           /\ pc' = IF batch.i = Len(batch.json_files)
                    THEN "batch_report" ELSE "batch_loop"
    /\ UNCHANGED <<input, root_id, stack, messages, turns, stdout, calls, meta,
                   body_parts, tix, outFile, result, exit_code, earlier, arg,
                   ret, split>>

\* Lines 226-267: the log file and the summary.
BatchReport ==
    /\ pc = "batch_report"
    /\ batch' = [batch EXCEPT
                    !.log_file = IF batch.log_entries # <<>>
                                 THEN [exists |-> TRUE, entries |-> batch.log_entries]
                                 ELSE @,
                    !.terminal = Append(@, [line |-> "summary",
                                            total |-> Len(batch.json_files),
                                            success |-> batch.success_count,
                                            warning |-> batch.warning_count,
                                            error |-> batch.error_count,
                                            listed |-> SubSeq(batch.error_files, 1,
                                                IF Len(batch.error_files) > 10 THEN 10
                                                ELSE Len(batch.error_files))])]
    /\ pc' = "returned"
    /\ UNCHANGED <<input, root_id, stack, messages, turns, stdout, calls, meta,
                   body_parts, tix, outFile, result, exit_code, earlier, arg,
                   ret, split>>

NextBatch == BatchUsage \/ BatchSearch \/ BatchConvert \/ BatchReport

SpecBatch == InitBatch /\ [][NextBatch]_vars

(***************************************************************************)
(* split_conversations.py: one JSON file per conversation of an export,    *)
(* below raw/YYYY/MM/, and an index of the conversations written.          *)
(***************************************************************************)
max_length == 50

InvalidChars == {"/", "\\", ":", "*", "?", "\"", "<", ">", "|"}

Chars_untitled == <<"u","n","t","i","t","l","e","d">>

\* Lines 38-83
sanitize_filename(title) ==
    LET sanitized == Strip(SelectSeq(title, LAMBDA c : c \notin InvalidChars))
    IN  IF sanitized = <<>> THEN Chars_untitled
        ELSE IF Len(sanitized) > max_length
        THEN RStrip(SubSeq(sanitized, 1, max_length))
        ELSE sanitized

\* str(counter)
RECURSIVE Decimal(_)
Decimal(num) ==
    LET digits == <<"0","1","2","3","4","5","6","7","8","9">>
    IN  IF num < 10 THEN <<digits[num + 1]>>
        ELSE Decimal(num \div 10) \o <<digits[(num % 10) + 1]>>

\* Lines 211-217: the local date of create_time, as a day number; the year
\* and the month of the directory and the date of the file name follow
\* from it. The local zone is that of format_timestamp.
LocalDay(create_time) == (create_time.n + TzOffset) \div 86400

\* A path below the output directory: raw/YYYY/MM/YYYY-MM-DD-<name>.json
PathOf(day, name) == [day |-> day, name |-> name]

PathExists(files, path) == \E f \in files : f.path = path

Numbered(original, counter) ==
    [original EXCEPT !.name = @ \o <<"_">> \o Decimal(counter)]

\* The loop of lines 249-254 leaving after its first round.
FreePathOneRound(files, original) ==
    IF PathExists(files, original) THEN Numbered(original, 1) ELSE original

\* Lines 240-254: the first free name among stem, stem_1, stem_2, ...
RECURSIVE FirstFree(_, _, _)
FirstFree(files, original, counter) ==
    IF PathExists(files, Numbered(original, counter))
    THEN FirstFree(files, original, counter + 1)
    ELSE Numbered(original, counter)

FreePath(files, original) ==
    IF PathExists(files, original) THEN FirstFree(files, original, 1) ELSE original

\* Lines 270-272: the nodes of the mapping with a message.
message_count(mapping) ==
    Cardinality({n \in 1..Len(mapping.nodes) : mapping.nodes[n].message.k = "msg"})

\* Lines 276-284
IndexEntry(path, conv) ==
    [path |-> path, id |-> conv.id,
     title |-> IF conv.title.k = "absent" THEN JStr(Chars_untitled) ELSE conv.title,
     create_time |-> conv.create_time, update_time |-> conv.update_time,
     message_count |-> message_count(conv.mapping),
     model |-> conv.default_model_slug]

\* Line 310: the sort key, and the order of two keys.
SortKey(entry) ==
    IF Truthy(entry.create_time) THEN entry.create_time ELSE JNum(0)

KeyBefore(a, b) == a.n < b.n \/ (a.n = b.n /\ a.f < b.f)

\* list.sort: ascending by key, entries of equal key in their old order.
RECURSIVE SortedInsert(_, _)
SortedInsert(sorted, entry) ==
    IF sorted = <<>> THEN <<entry>>
    ELSE IF KeyBefore(SortKey(entry), SortKey(sorted[Len(sorted)]))
    THEN Append(SortedInsert(SubSeq(sorted, 1, Len(sorted) - 1), entry),
                sorted[Len(sorted)])
    ELSE Append(sorted, entry)

RECURSIVE SortIndex(_)
SortIndex(index_data) ==
    IF index_data = <<>> THEN <<>>
    ELSE SortedInsert(SortIndex(SubSeq(index_data, 1, Len(index_data) - 1)),
                      index_data[Len(index_data)])

\* The elements of the export: a conversation, or a null.
SplitMappings ==
    { [k |-> "null", nodes |-> <<>>],
      [k |-> "dict", nodes |-> << Node(1, NoNode, <<2>>, NoMessage),
                                  Node(2, 1, <<>>, PaletteMsg("U", 2)) >>] }

LongTitle == [c \in 1..(max_length + 1) |->
                 IF c = max_length THEN " " ELSE "x"]

SplitTitles ==
    { JAbsent, JNull, JStr(<<"a">>), JStr(<<"a","/">>), JStr(<<"a","_","1">>),
      JStr(<<" ","*"," ">>), JStr(LongTitle) }

SplitTimes == { JNull, JNum(0), JNum(54000), JStr(<<"1">>) }

ExportElements ==
    {[k |-> "null", id |-> 0, create_time |-> JAbsent, update_time |-> JAbsent,
      title |-> JAbsent, mapping |-> [k |-> "null", nodes |-> <<>>],
      default_model_slug |-> JAbsent]}
    \cup {[k |-> "dict", id |-> 0, create_time |-> ctime, update_time |-> JNum(60),
           title |-> title, mapping |-> mapping, default_model_slug |-> JAbsent] :
            ctime \in SplitTimes, title \in SplitTitles, mapping \in SplitMappings}

\* A file left in the output tree by something else.
OldContent == [run |-> 0, id |-> 0]

OldTrees ==
    { {},
      {[path |-> PathOf(0, <<"a">>), holds |-> OldContent]},
      {[path |-> PathOf(0, <<"a","_","1">>), holds |-> OldContent]} }

\* Lines 295-301 and 204-207: what the except clause and the skip do.
Failed(sp, i) ==
    [sp EXCEPT !.error_count = @ + 1,
               !.terminal = Append(@, [line |-> "error", i |-> i])]

Skipped(sp, i) ==
    [sp EXCEPT !.error_count = @ + 1,
               !.terminal = Append(@, [line |-> "warning", i |-> i])]

\* Lines 260-261: the conversation written to output_path.
WriteConversation(sp, conv, original, output_path) ==
    [sp EXCEPT
        !.files = {f \in @ : f.path # output_path}
                  \cup {[path |-> output_path,
                         holds |-> [run |-> sp.run, id |-> conv.id]]},
        !.overwritten.files =
            IF PathExists(sp.files, output_path) THEN @ \cup {output_path} ELSE @,
        !.written = Append(@, [run |-> sp.run, id |-> conv.id, path |-> output_path,
                               wanted |-> original, taken |-> {f.path : f \in sp.files}])]

\* Lines 263-293: the index entry, the count and the progress line.
Indexed(sp, conv, output_path, i) ==
    [sp EXCEPT !.index_data = Append(@, IndexEntry(output_path, conv)),
               !.success_count = @ + 1,
               !.terminal = IF i % 100 = 0
                            THEN Append(@, [line |-> "progress", i |-> i]) ELSE @]

\* Lines 197-301: one round of the loop.
SplitOne(sp, conv, i) ==
    IF conv.k # "dict" THEN Failed(sp, i)
    ELSE IF IsNone(conv.create_time) THEN Skipped(sp, i)
    ELSE IF conv.create_time.k # "num" THEN Failed(sp, i)
    ELSE IF conv.title.k \notin {"absent", "str"} THEN Failed(sp, i)
    ELSE LET title == IF conv.title.k = "absent" THEN Chars_untitled
                      ELSE conv.title.s
             original == PathOf(LocalDay(conv.create_time), sanitize_filename(title))
             output_path == FreePath(sp.files, original)
             wrote == WriteConversation(sp, conv, original, output_path)
         IN  IF conv.mapping.k # "dict" THEN Failed(wrote, i)
             ELSE Indexed(wrote, conv, output_path, i)

InitSplit ==
    /\ \E named \in BOOLEAN, exists \in BOOLEAN,
          shapes \in UNION {[1..len -> ExportElements] : len \in 0..MaxConvs},
          tree \in OldTrees, index \in BOOLEAN :
          /\ ~named => ~exists
          /\ ~exists => shapes = <<>> /\ tree = {} /\ ~index
          /\ split = [NoSplit EXCEPT
                         !.run = 1, !.named = named, !.exists = exists,
                         !.data = [k \in 1..Len(shapes) |-> [shapes[k] EXCEPT !.id = k]],
                         !.files = tree,
                         !.index_file = [exists |-> index, run |-> 0, entries |-> <<>>]]
    /\ batch = NoBatch
    /\ pc = "split_main"
    /\ Parked
    /\ arg = <<>>
    /\ ret = <<>>

\* main, lines 356-363: no argument.
SplitUsage ==
    /\ pc = "split_main"
    /\ ~split.named
    /\ split' = [split EXCEPT !.terminal = Append(@, [line |-> "usage", i |-> 0])]
    /\ exit_code' = Exit(1)
    /\ pc' = "exited"
    /\ UNCHANGED <<input, root_id, stack, messages, turns, stdout, calls, meta,
                   body_parts, tix, outFile, result, earlier, arg, ret, batch>>

\* Lines 150-192: the export is read and the counters start at zero.
SplitLoad ==
    /\ pc = "split_main"
    /\ split.named
    /\ IF ~split.exists
       THEN /\ split' = [split EXCEPT !.terminal = Append(@, [line |-> "error", i |-> 0])]
            /\ exit_code' = Exit(1)
            /\ pc' = "exited"
       ELSE /\ split' = [split EXCEPT !.i = 1, !.index_data = <<>>,
                                      !.success_count = 0, !.error_count = 0]
            /\ pc' = IF split.data = <<>> THEN "split_index" ELSE "split_loop"
            /\ UNCHANGED exit_code
    /\ UNCHANGED <<input, root_id, stack, messages, turns, stdout, calls, meta,
                   body_parts, tix, outFile, result, earlier, arg, ret, batch>>

\* Lines 197-301
SplitConversation ==
    /\ pc = "split_loop"
    /\ split' = [SplitOne(split, split.data[split.i], split.i) EXCEPT !.i = @ + 1]
    /\ pc' = IF split.i = Len(split.data) THEN "split_index" ELSE "split_loop"
    /\ UNCHANGED <<input, root_id, stack, messages, turns, stdout, calls, meta,
                   body_parts, tix, outFile, result, exit_code, earlier, arg,
                   ret, batch>>

\* Lines 303-329: the index sorted and written, the summary.
SplitIndex ==
    /\ pc = "split_index"
    /\ LET sorted == SortIndex(split.index_data)
       IN  split' = [split EXCEPT
                        !.index_data = sorted,
                        !.index_file = [exists |-> TRUE, run |-> split.run,
                                        entries |-> sorted],
                        !.overwritten.index = @ \/ split.index_file.exists,
                        !.terminal = Append(@, [line |-> "summary", i |-> 0])]
    /\ pc' = "returned"
    /\ UNCHANGED <<input, root_id, stack, messages, turns, stdout, calls, meta,
                   body_parts, tix, outFile, result, exit_code, earlier, arg,
                   ret, batch>>

\* The command run once more on the same export and output directory.
SplitAgain ==
    /\ pc = "returned"
    /\ split.run < MaxRuns
    /\ split' = [split EXCEPT !.run = @ + 1, !.terminal = <<>>]
    /\ pc' = "split_main"
    /\ UNCHANGED <<input, root_id, stack, messages, turns, stdout, calls, meta,
                   body_parts, tix, outFile, result, exit_code, earlier, arg,
                   ret, batch>>

NextSplit == SplitUsage \/ SplitLoad \/ SplitConversation \/ SplitIndex \/ SplitAgain

SpecSplit == InitSplit /\ [][NextSplit]_vars


(***************************************************************************)
(* Properties.                                                             *)
(***************************************************************************)
\* build_turns has returned its Turn list.
BuildTurnsReturned == pc \in {"check_turns", "metadata", "body", "done"}

\* The positions, in key order, of the nodes whose parent is null or absent.
Parentless == {i \in 1..Len(input.mapping) : input.mapping[i].parent = NoNode}

\* Whether some node carries a user message that extracts to text.
SomeUserMessage ==
    \E i \in 1..Len(input.mapping) :
        LET node == input.mapping[i]
        IN  /\ Extracts(node)
            /\ node.message.role.s = <<"u","s","e","r">>
            /\ extract_message_content(node.message).kind = "str"

\* The ids of the depth-first pre-order walk from a node, children in their
\* declared order, child references to missing nodes passed over.
RECURSIVE PreOrder(_, _), PreOrderAll(_, _)
PreOrder(mapping, id) ==
    IF id \notin Ids(mapping) THEN <<>>
    ELSE <<id>> \o PreOrderAll(mapping, NodeOf(mapping, id).children)
PreOrderAll(mapping, ids) ==
    IF ids = <<>> THEN <<>>
    ELSE PreOrder(mapping, Head(ids)) \o PreOrderAll(mapping, Tail(ids))

\* A node whose message has role user or assistant and text to show.
Recordable(node) ==
    /\ node.message.k = "msg"
    /\ node.message.role.k = "str"
    /\ node.message.role.s \in {<<"u","s","e","r">>,
                                <<"a","s","s","i","s","t","a","n","t">>}
    /\ extract_message_content(node.message).kind = "str"

IsUserNode(node) == node.message.role.s = <<"u","s","e","r">>

\* C1 as stated: build_turns returns no Turn for a mapping that has zero
\* parentless nodes and for a mapping that has more than one.
C1_EmptyUnlessOneRoot ==
    (BuildTurnsReturned /\ Cardinality(Parentless) # 1) => turns = <<>>

\* C1, amended: build_turns returns no Turn (and records no message) for a
\* mapping that has zero parentless nodes, whatever its nodes carry; when
\* there are several parentless nodes the first of them in key order is the
\* root that is traversed.
C1_NoRootEmptyElseFirstRoot ==
    /\ (BuildTurnsReturned /\ Parentless = {})
          => (turns = <<>> /\ messages = <<>> /\ root_id = NoNode)
    /\ (pc \notin {"start", "find_root"} /\ Parentless # {})
          => root_id = input.mapping[CHOOSE i \in Parentless :
                                         \A j \in Parentless : i <= j].id

\* A mapping without a parentless node whose nodes carry user messages has
\* been through build_turns.
C1_Witness ==
    /\ pc = "done"
    /\ input.exists
    /\ Parentless = {}
    /\ SomeUserMessage

\* The flattened list is user, assistant, user, assistant, ...
Alternating(msgs) ==
    /\ Len(msgs) % 2 = 0
    /\ \A i \in 1..Len(msgs) :
          IF i % 2 = 1 THEN IsUser(msgs[i]) ELSE IsAssistant(msgs[i])

\* C2: a flattened list that alternates user, assistant over 2n entries
\* gives n Turns numbered 0..n-1, the k-th holding the k-th user entry and
\* one assistant branch, the entry right after that user entry.
C2_AlternationGivesPairs ==
    (BuildTurnsReturned /\ Alternating(messages))
       => /\ Len(turns) * 2 = Len(messages)
          /\ \A k \in 1..Len(turns) :
                /\ turns[k].turn_number = k - 1
                /\ turns[k].user = messages[2 * k - 1]
                /\ turns[k].assistants = <<messages[2 * k]>>

\* An alternating list of three pairs has been grouped.
C2_Witness ==
    /\ pc = "done"
    /\ Alternating(messages)
    /\ Len(messages) = 6
    /\ Len(turns) = 3

\* The recorded user entries of the pre-order walk from the root.
UserIdsInPreOrder ==
    SelectSeq(PreOrder(input.mapping, root_id),
              LAMBDA id : LET node == NodeOf(input.mapping, id)
                          IN  Recordable(node) /\ IsUserNode(node))

\* C3: the Turns are numbered 0, 1, 2, ... without gap or repeat, and the
\* k-th Turn holds the k-th recorded user entry of the pre-order walk.
C3_DenseNumbersInUserOrder ==
    BuildTurnsReturned
       => /\ \A k \in 1..Len(turns) : turns[k].turn_number = k - 1
          /\ root_id # NoNode
                => /\ Len(turns) = Len(UserIdsInPreOrder)
                   /\ \A k \in 1..Len(turns) :
                         turns[k].user.node_id = UserIdsInPreOrder[k]
          /\ root_id = NoNode => turns = <<>>

\* Two Turns were built from a list that starts with an assistant entry and
\* has two assistant entries between its user entries.
C3_Witness ==
    /\ pc = "done"
    /\ Len(turns) = 2
    /\ Len(messages) = 5
    /\ IsAssistant(messages[1])
    /\ Len(turns[1].assistants) = 2

\* The node's message has a content_type of the silent-skip set.
SilentNode(node) ==
    /\ node.message.k = "msg"
    /\ node.message.content.k = "dict"
    /\ node.message.content.content_type.k = "str"
    /\ node.message.content.content_type.s \in SILENT_SKIP_TYPES

\* The ids of the nodes a Turn refers to.
TurnIds(turn) ==
    {turn.user.node_id} \cup {turn.assistants[j].node_id : j \in 1..Len(turn.assistants)}

\* C4: a message whose content_type is in the silent-skip set is never
\* recorded, never a Turn's user message or assistant branch, whatever its
\* role, parts and text, and its extraction prints nothing.
C4_SilentSkipNeverShown ==
    \A i \in 1..Len(input.mapping) :
        LET node == input.mapping[i]
        IN  SilentNode(node)
              => /\ \A k \in 1..Len(messages) : messages[k].node_id # node.id
                 /\ \A k \in 1..Len(turns) : node.id \notin TurnIds(turns[k])
                 /\ \A k \in 1..Len(stdout) : stdout[k].node_id # node.id
                 /\ \A k \in 1..Len(calls) :
                       calls[k].node_id = node.id
                          => /\ calls[k].outcome.kind = "none"
                             /\ calls[k].outcome.info.k = "absent"

\* A user message of a silent-skip type that carries text in parts and in
\* text was extracted, and the conversion went on to build Turns.
C4_Witness ==
    /\ pc = "done"
    /\ Len(turns) >= 1
    /\ \E i \in 1..Len(input.mapping) :
          LET node == input.mapping[i]
          IN  /\ SilentNode(node)
              /\ IsUserNode(node)
              /\ node.message.content.parts.k = "list"
              /\ \E e \in 1..Len(node.message.content.parts.l) :
                    PartQualifies(node.message.content.parts.l[e])
              /\ Truthy(node.message.content.text)
              /\ \E k \in 1..Len(calls) : calls[k].node_id = node.id

\* The message of a node of the mapping.
MessageOf(id) == NodeOf(input.mapping, id).message

\* A message shape outside the input format: a content that is no mapping,
\* or a content_type, parts or text of the wrong type.
Malformed(message) ==
    \/ message.content.k \in {"null", "str"}
    \/ message.content.content_type.k \notin {"absent", "null", "str"}
    \/ message.content.parts.k \notin {"absent", "null", "list"}
    \/ message.content.text.k \notin {"absent", "null", "str"}

\* C5 as stated: no call of extract_message_content raises, whatever the
\* message's shape, and every malformed shape gives the skip signal.
C5_ExtractNeverRaises ==
    \A k \in 1..Len(calls) :
        /\ calls[k].outcome.kind \in {"str", "none"}
        /\ Malformed(MessageOf(calls[k].node_id)) => calls[k].outcome.kind = "none"

\* The number of INFO lines printed for a node's message.
InfoCount(id) ==
    Cardinality({k \in 1..Len(stdout) :
                    stdout[k].kind = "INFO" /\ stdout[k].node_id = id})

IsRecorded(id) == \E k \in 1..Len(messages) : messages[k].node_id = id

\* The node's message has a content_type that is a value of neither the
\* silent-skip set nor the allowed set.
UnrecognizedNode(node) ==
    /\ node.message.k = "msg"
    /\ node.message.content.k = "dict"
    /\ node.message.content.content_type.k \notin {"absent", "null"}
    /\ ~ (/\ node.message.content.content_type.k = "str"
          /\ node.message.content.content_type.s
                \in SILENT_SKIP_TYPES \cup ALLOWED_CONTENT_TYPES)

\* An unrecognized content_type that is a non-empty string or a non-zero number.
ReportedType(node) ==
    /\ UnrecognizedNode(node)
    /\ \/ /\ node.message.content.content_type.k = "str"
          /\ node.message.content.content_type.s # <<>>
       \/ /\ node.message.content.content_type.k = "num"
          /\ node.message.content.content_type.n # 0

HasRecordedRole(node) ==
    /\ node.message.k = "msg"
    /\ node.message.role.k = "str"
    /\ node.message.role.s \in {<<"u","s","e","r">>,
                                <<"a","s","s","i","s","t","a","n","t">>}

\* Following parent fields from a node leads to a parentless node.
RECURSIVE LeadsToRoot(_, _, _)
LeadsToRoot(mapping, id, fuel) ==
    IF id \notin Ids(mapping) THEN FALSE
    ELSE IF NodeOf(mapping, id).parent = NoNode THEN TRUE
    ELSE IF fuel = 0 THEN FALSE
    ELSE LeadsToRoot(mapping, NodeOf(mapping, id).parent, fuel - 1)

\* The mapping is a tree: one parentless node, every child reference names
\* an existing node whose parent field points back, no child listed twice,
\* every node with a parent listed by it, and every node below the root.
TreeShaped(mapping) ==
    /\ Cardinality({i \in 1..Len(mapping) : mapping[i].parent = NoNode}) = 1
    /\ \A i \in 1..Len(mapping) :
          LET node == mapping[i]
          IN  /\ \A j \in 1..Len(node.children) :
                    /\ node.children[j] \in Ids(mapping)
                    /\ NodeOf(mapping, node.children[j]).parent = node.id
                    /\ \A j2 \in 1..Len(node.children) :
                          node.children[j2] = node.children[j] => j2 = j
              /\ node.parent # NoNode
                    => /\ node.parent \in Ids(mapping)
                       /\ \E j \in 1..Len(NodeOf(mapping, node.parent).children) :
                             NodeOf(mapping, node.parent).children[j] = node.id
              /\ LeadsToRoot(mapping, node.id, Len(mapping))

\* The number of "# Turn NN" lines of the written document.
TurnHeadings(doc) == Cardinality({k \in 1..Len(doc.body) : doc.body[k].t = "turn"})

\* C6 as stated: after a conversion, every message whose content_type is a
\* value of neither set was skipped and has exactly one INFO line.
C6_OneDiagnosticPerUnrecognized ==
    pc = "done"
       => \A i \in 1..Len(input.mapping) :
             UnrecognizedNode(input.mapping[i])
                => /\ InfoCount(input.mapping[i].id) = 1
                   /\ ~IsRecorded(input.mapping[i].id)

\* C6, amended: on a tree-shaped mapping, a user or assistant message whose
\* content_type is a non-empty string or a non-zero number of neither set
\* is skipped with exactly one INFO line per conversion; a message of
\* another role is never extracted and has none; the print never ends the
\* run, the other recordable messages are all recorded, and the document is
\* written from them whenever they make a Turn.
C6_OneDiagnosticWhenExtracted ==
    /\ (pc = "raised" /\ result.value \notin {"FileNotFoundError", "RecursionError"})
          => calls[Len(calls)].outcome.kind = "raise"
    /\ (pc = "done" /\ TreeShaped(input.mapping))
          => /\ \A i \in 1..Len(input.mapping) :
                   LET node == input.mapping[i]
                   IN  /\ (ReportedType(node) /\ HasRecordedRole(node))
                             => (InfoCount(node.id) = 1 /\ ~IsRecorded(node.id))
                       /\ ~HasRecordedRole(node) => InfoCount(node.id) = 0
                       /\ Recordable(node) => IsRecorded(node.id)
             /\ turns # <<>>
                   => /\ outFile.exists
                      /\ result.kind = "return" /\ result.value # ""
                      /\ TurnHeadings(outFile.doc) = Len(turns)

\* A conversion printed one INFO line for an unrecognized assistant message
\* and wrote a document with a Turn built from the messages around it.
C6_Witness ==
    /\ pc = "done"
    /\ TreeShaped(input.mapping)
    /\ outFile.exists
    /\ \E i \in 1..Len(input.mapping) :
          LET node == input.mapping[i]
          IN  /\ ReportedType(node)
              /\ HasRecordedRole(node)
              /\ InfoCount(node.id) = 1
              /\ \E c \in 1..Len(node.children) : IsRecorded(node.children[c])

\* The positions of the characters of a string that are not whitespace.
Inked(chars) == {c \in 1..Len(chars) : chars[c] \notin {" ", "\t", "\n"}}

Least(S) == CHOOSE x \in S : \A y \in S : x <= y
Greatest(S) == CHOOSE x \in S : \A y \in S : x >= y

\* A string without the whitespace before its first and after its last
\* other character.
Trimmed(chars) ==
    IF Inked(chars) = {} THEN <<>>
    ELSE SubSeq(chars, Least(Inked(chars)), Greatest(Inked(chars)))

\* The positions of the elements of a list that are strings with a
\* character other than whitespace.
TextParts(elems) == {e \in 1..Len(elems) : elems[e].k = "str" /\ Inked(elems[e].s) # {}}

HasAllowedType(message) ==
    /\ message.content.k = "dict"
    /\ message.content.content_type.k = "str"
    /\ message.content.content_type.s \in ALLOWED_CONTENT_TYPES

PartsPresent(message) == message.content.parts.k \notin {"absent", "null"}

\* C7: for an allowed content_type and a parts field that is present, the
\* result is the skip signal when parts is no list or an empty list, else
\* the first element that is a string with text, trimmed, and the skip
\* signal when there is none; the text field plays no part.
C7_PartsDecideWhenPresent ==
    \A k \in 1..Len(calls) :
        LET message == MessageOf(calls[k].node_id)
            parts == message.content.parts
        IN  (HasAllowedType(message) /\ PartsPresent(message))
               => IF parts.k # "list" \/ parts.l = <<>> \/ TextParts(parts.l) = {}
                  THEN calls[k].outcome.kind = "none"
                  ELSE /\ calls[k].outcome.kind = "str"
                       /\ calls[k].outcome.text = Trimmed(parts.l[Least(TextParts(parts.l))].s)

\* A message whose parts hold an image and then padded text, and whose
\* text field holds other text, extracted to the trimmed text of parts.
C7_Witness ==
    \E k \in 1..Len(calls) :
        LET message == MessageOf(calls[k].node_id)
        IN  /\ HasAllowedType(message)
            /\ message.content.parts.k = "list"
            /\ Len(message.content.parts.l) = 2
            /\ message.content.parts.l[1].k = "obj"
            /\ Len(message.content.parts.l[2].s) > Len(Trimmed(message.content.parts.l[2].s))
            /\ message.content.text.k = "str"
            /\ Inked(message.content.text.s) # {}
            /\ calls[k].outcome.text = <<"h","i">>

\* The entries of messages that extract to the empty string.
EmptyEntry(entry) ==
    /\ HasAllowedType(entry.message)
    /\ ~PartsPresent(entry.message)
    /\ extract_message_content(entry.message).text = <<>>

\* C8: for an allowed content_type and no parts field, the result is the
\* trimmed text field when that is a string with text and the empty string
\* otherwise, never the skip signal; a user or assistant message that
\* extracts to the empty string is recorded, opens a Turn when it is a user
\* message, and is a branch of the Turn open before it when an assistant's.
C8_TextFallbackNeverSkips ==
    /\ \A k \in 1..Len(calls) :
          LET message == MessageOf(calls[k].node_id)
              text == message.content.text
          IN  (HasAllowedType(message) /\ ~PartsPresent(message))
                 => /\ calls[k].outcome.kind = "str"
                    /\ calls[k].outcome.text =
                          IF text.k = "str" THEN Trimmed(text.s) ELSE <<>>
                    /\ HasRecordedRole(NodeOf(input.mapping, calls[k].node_id))
                          => IsRecorded(calls[k].node_id)
    /\ pc \in {"metadata", "body", "done"}
          => \A k \in 1..Len(messages) :
                EmptyEntry(messages[k])
                   => IF IsUser(messages[k])
                      THEN \E t \in 1..Len(turns) : turns[t].user = messages[k]
                      ELSE (\E u \in 1..(k - 1) : IsUser(messages[u]))
                              => \E t \in 1..Len(turns) :
                                    \E b \in 1..Len(turns[t].assistants) :
                                       turns[t].assistants[b] = messages[k]

\* A user message without parts and with a blank text field opened a Turn
\* of the written document.
C8_Witness ==
    /\ pc = "done"
    /\ outFile.exists
    /\ \E t \in 1..Len(turns) :
          /\ EmptyEntry(turns[t].user)
          /\ turns[t].user.message.content.text.k = "str"
          /\ turns[t].user.message.content.text.s # <<>>

\* The traversal from the root has returned.
TraversalDone ==
    /\ root_id # NoNode
    /\ pc \in {"group", "check_turns", "metadata", "body", "done"}

\* The recordable nodes of the pre-order walk from the root.
RecordableInPreOrder ==
    SelectSeq(PreOrder(input.mapping, root_id),
              LAMBDA id : Recordable(NodeOf(input.mapping, id)))

IsPrefix(short, long) ==
    /\ Len(short) <= Len(long)
    /\ \A k \in 1..Len(short) : short[k] = long[k]

MessageIds == [k \in 1..Len(messages) |-> messages[k].node_id]

\* C9: on a tree-shaped mapping the flattened list is the pre-order walk
\* from the root, children in declared order, cut down to the nodes whose
\* message has role user or assistant and text to show; the list grows
\* in that order, and an unrecorded node does not hide its descendants.
C9_FlattenedIsPreOrder ==
    (input.exists /\ TreeShaped(input.mapping) /\ root_id # NoNode)
       => /\ IsPrefix(MessageIds, RecordableInPreOrder)
          /\ TraversalDone => MessageIds = RecordableInPreOrder
          /\ \A k \in 1..Len(messages) :
                LET node == NodeOf(input.mapping, messages[k].node_id)
                IN  /\ messages[k].message = node.message
                    /\ messages[k].role = node.message.role.s
                    /\ messages[k].children = node.children

\* The traversal of a tree returned in which a node has two children with
\* recorded messages, the first of them with a recorded child of its own,
\* and in which a node with an unrecorded message has a recorded child.
C9_Witness ==
    /\ pc = "done"
    /\ TreeShaped(input.mapping)
    /\ \E i \in 1..Len(input.mapping) :
          LET node == input.mapping[i]
          IN  /\ Len(node.children) = 2
              /\ IsRecorded(node.children[1])
              /\ IsRecorded(node.children[2])
              /\ \E c \in 1..Len(NodeOf(input.mapping, node.children[1]).children) :
                    IsRecorded(NodeOf(input.mapping, node.children[1]).children[c])
    /\ \E i \in 1..Len(input.mapping) :
          LET node == input.mapping[i]
          IN  /\ node.message.k = "msg"
              /\ ~IsRecorded(node.id)
              /\ \E c \in 1..Len(node.children) : IsRecorded(node.children[c])

IsAssistantNode(node) == node.message.role.s = <<"a","s","s","i","s","t","a","n","t">>

\* The conversation is one user message whose node has two children, both
\* assistant messages with text to show, and no other message to show.
OneUserTwoBranches(userId) ==
    /\ TreeShaped(input.mapping)
    /\ userId \in Ids(input.mapping)
    /\ LET user == NodeOf(input.mapping, userId)
       IN  /\ Recordable(user) /\ IsUserNode(user)
           /\ Len(user.children) = 2
           /\ \A c \in 1..2 :
                 /\ Recordable(NodeOf(input.mapping, user.children[c]))
                 /\ IsAssistantNode(NodeOf(input.mapping, user.children[c]))
           /\ \A i \in 1..Len(input.mapping) :
                 Recordable(input.mapping[i])
                    => input.mapping[i].id \in {userId, user.children[1], user.children[2]}

\* The lines of a document that open a Turn or a section, by name.
SectionOrder(doc) ==
    LET heads == SelectSeq(doc.body, LAMBDA line : line.t \in {"turn", "user", "chatgpt"})
    IN  [k \in 1..Len(heads) |-> heads[k].t]

\* The send times of a document's sections, in order.
SentOrder(doc) ==
    LET sent == SelectSeq(doc.body, LAMBDA line : line.t = "sent")
    IN  [k \in 1..Len(sent) |-> sent[k].ts]

\* C10: one user message with two sibling assistant children gives one
\* Turn whose branch list is the two children in their order, and a
\* document with one Turn heading, one user section and two response
\* sections, the first child's before the second's.
C10_TwoBranchesOneTurn ==
    \A userId \in Ids(input.mapping) :
        (pc = "done" /\ OneUserTwoBranches(userId))
           => LET user == NodeOf(input.mapping, userId)
                  first == NodeOf(input.mapping, user.children[1])
                  second == NodeOf(input.mapping, user.children[2])
              IN  /\ Len(turns) = 1
                  /\ turns[1].user.node_id = userId
                  /\ [b \in 1..Len(turns[1].assistants) |->
                         turns[1].assistants[b].node_id] = user.children
                  /\ outFile.exists
                  /\ SectionOrder(outFile.doc) = <<"turn", "user", "chatgpt", "chatgpt">>
                  /\ SentOrder(outFile.doc) =
                        << format_timestamp(user.message.create_time),
                           format_timestamp(first.message.create_time),
                           format_timestamp(second.message.create_time) >>

\* Such a conversation, below a root without a message, was converted.
C10_Witness ==
    /\ pc = "done"
    /\ outFile.exists
    /\ \E userId \in Ids(input.mapping) :
          /\ OneUserTwoBranches(userId)
          /\ NodeOf(input.mapping, userId).parent # NoNode

\* generate_markdown has written the document of this run.
Produced ==
    /\ pc \in {"done", "exited"}
    /\ result.kind = "return"
    /\ result.value # ""

\* The numbers of the "# Turn NN" lines of a document, in order.
TurnNumbers(doc) ==
    LET heads == SelectSeq(doc.body, LAMBDA line : line.t = "turn")
    IN  [k \in 1..Len(heads) |-> heads[k].n]

\* The user message of Turn 0 extracts to the skip signal.
TurnZeroSkips == extract_message_content(turns[1].user.message).kind = "none"

C12_TurnZeroNeverRendered ==
    Produced
       => \A k \in 1..Len(TurnNumbers(outFile.doc)) : TurnNumbers(outFile.doc)[k] # 0

\* C13: in a produced document the turn-count of the front matter and of
\* the header is the number of Turns numbered above 0, which is
\* len(turns) - 1, and the Turns are rendered under the numbers 0, 1, ...;
\* a conversation of n user/assistant pairs has turn-count n - 1 and its
\* last pair under the number n - 1, so that one more pair adds one Turn
\* under the next number and raises turn-count by 1.
C13_TurnCountIsTurnsAboveZero ==
    Produced
       => /\ outFile.doc.yaml.turn_count = Len(turns) - 1
          /\ outFile.doc.header.turn_count = Len(turns) - 1
          /\ outFile.doc.yaml.turn_count =
                Cardinality({k \in 1..Len(turns) : turns[k].turn_number > 0})
          /\ TurnNumbers(outFile.doc) = [k \in 1..Len(turns) |-> k - 1]
          /\ Alternating(messages)
                => /\ 2 * (outFile.doc.yaml.turn_count + 1) = Len(messages)
                   /\ 2 * (TurnNumbers(outFile.doc)[Len(turns)] + 1) = Len(messages)

\* A conversation of three user/assistant pairs was converted.
C13_Witness ==
    /\ Produced
    /\ Alternating(messages)
    /\ Len(messages) = 6
    /\ outFile.doc.yaml.turn_count = 2

\* The create_time of the last assistant branch of the final Turn, or of
\* its user message when it has no branch.
FinalTime ==
    LET final == turns[Len(turns)]
    IN  IF Len(final.assistants) > 0
        THEN final.assistants[Len(final.assistants)].message.create_time
        ELSE final.user.message.create_time

\* Some message of a Turn before the final one has a create_time.
EarlierTurnTimed ==
    \E k \in 1..(Len(turns) - 1) :
        \/ ~IsNone(turns[k].user.message.create_time)
        \/ \E b \in 1..Len(turns[k].assistants) :
              ~IsNone(turns[k].assistants[b].message.create_time)

\* C14: the last-message date of a produced document, in the front matter
\* and in the header, is the formatted create_time of the last assistant
\* branch of the final Turn, or of the final Turn's user message when it has
\* no branch; when that create_time is null the date is empty, whatever the
\* Turns before hold.
C14_LastTimeFromFinalTurn ==
    Produced
       => /\ outFile.doc.yaml.last_message_date = format_timestamp(FinalTime)
          /\ outFile.doc.header.last = format_timestamp(FinalTime)
          /\ IsNone(FinalTime) => outFile.doc.yaml.last_message_date = <<>>

\* A conversation was converted whose final Turn has no branch and a user
\* message without create_time, after a Turn whose messages have one.
C14_Witness ==
    /\ Produced
    /\ Len(turns) = 2
    /\ turns[2].assistants = <<>>
    /\ IsNone(FinalTime)
    /\ EarlierTurnTimed
    /\ outFile.doc.yaml.last_message_date = <<>>

\* The whole seconds at or below last - first.
FloorSeconds(first, last) ==
    IF last.f < first.f THEN last.n - first.n - 1 ELSE last.n - first.n

\* C15: the duration-days of a produced document is the floor of
\* (last_message_time - first_message_time) / 86400 when both times are
\* present, a time of 0 and a last time before the first included, and 0
\* when one is absent; first_message_time is the record's create_time.
C15_DurationIsFloorOfDays ==
    Produced
       => outFile.doc.yaml.duration_days =
             IF ~IsNone(input.create_time) /\ ~IsNone(FinalTime)
             THEN FloorSeconds(input.create_time, FinalTime) \div 86400
             ELSE 0

\* The lines of one kind on the standard output.
LinesOf(kind) == {k \in 1..Len(stdout) : stdout[k].kind = kind}

\* C16: when build_turns has returned no Turn, the next step of
\* generate_markdown prints the warning and returns the empty string, and
\* no step of a run that has no Turn changes the output target: it is not
\* created, and not modified or truncated when it exists already.
C16_NoTurnsNoDocument ==
    /\ [][(pc = "check_turns" /\ turns = <<>>)
            => /\ pc' = "done"
               /\ result' = Return("")
               /\ stdout' = Append(stdout, MainLine("WARNING"))
               /\ outFile' = outFile]_vars
    /\ [][turns' = <<>> => outFile' = outFile]_vars
    /\ []((pc \in {"done", "exited"} /\ turns = <<>> /\ result.kind = "return")
            => (result = Return("") /\ Cardinality(LinesOf("WARNING")) = 1))

\* A conversation with a root and messages, none of them recorded, was
\* converted towards a target that existed before, and the target is as it
\* was.
C16_Witness ==
    /\ pc = "done"
    /\ earlier = <<>>
    /\ root_id # NoNode
    /\ \E i \in 1..Len(input.mapping) : input.mapping[i].message.k = "msg"
    /\ messages = <<>>
    /\ result = Return("")
    /\ outFile = OldFile

\* C17: when the named input file does not exist, generate_markdown raises
\* FileNotFoundError without having written the output target, and the
\* command ends with exit status 1, an error line and no line reporting a
\* completed conversion.
C17_MissingInputFailsHard ==
    (input.named /\ ~input.exists)
       => /\ pc \in {"start", "raised", "exited"}
          /\ ~outFile.exists
          /\ pc = "raised" => result = Raise("FileNotFoundError")
          /\ pc = "exited"
                => /\ result = Raise("FileNotFoundError")
                   /\ exit_code = Exit(1)
                   /\ LinesOf("COMPLETE") = {}
                   /\ Cardinality(LinesOf("ERROR")) = 1

\* The command was run on a missing file and has ended.
C17_Witness ==
    /\ input.named
    /\ ~input.exists
    /\ pc = "exited"
    /\ exit_code.exited

\* C18: a run of the command on the same input and output target as the run
\* before ends as that run did: the same document in the target, the same
\* result, output lines and exit status, whether the run before started
\* without a target, with a target holding something else, or with the
\* document of an earlier run.
C18_RerunLeavesSameDocument ==
    (pc = "exited" /\ earlier # <<>>)
       => /\ outFile = earlier[Len(earlier)].outFile
          /\ result = earlier[Len(earlier)].result
          /\ stdout = earlier[Len(earlier)].stdout
          /\ exit_code = earlier[Len(earlier)].exit_code

\* A conversation of two Turns was converted twice.
C18_Witness ==
    /\ pc = "exited"
    /\ Len(earlier) = 1
    /\ Produced
    /\ Len(turns) = 2
    /\ outFile.exists
    /\ outFile = earlier[1].outFile

\* The positions of the line breaks of a text, and the k-th of them.
Breaks(chars) == {i \in 1..Len(chars) : chars[i] = "\n"}
BreakAt(chars, k) ==
    CHOOSE i \in Breaks(chars) : Cardinality({j \in Breaks(chars) : j <= i}) = k

LineCount(chars) == Cardinality(Breaks(chars)) + 1

\* The k-th line of a text, without its line break.
LineAt(chars, k) ==
    SubSeq(chars,
           IF k = 1 THEN 1 ELSE BreakAt(chars, k - 1) + 1,
           IF k = LineCount(chars) THEN Len(chars) ELSE BreakAt(chars, k) - 1)

\* The number of blank characters a line starts with.
Indent(line) ==
    Cardinality({i \in 1..Len(line) : \A j \in 1..i : line[j] \in Whitespace})

\* The line with one more "#" where its first "#" stands, when its first
\* non-blank character is "#"; the line itself otherwise.
Demoted(line) ==
    LET indent == Indent(line)
    IN  IF indent < Len(line) /\ line[indent + 1] = "#"
        THEN SubSeq(line, 1, indent) \o <<"#">> \o SubSeq(line, indent + 1, Len(line))
        ELSE line

\* C19: adjust_headings returns a text of as many lines as its argument,
\* each line whose first non-blank characters are "#" with exactly one more
\* "#" and its leading blanks and the rest of the line as they were, every
\* other line as it was, in the same order; a heading-like line inside a
\* fenced code block is treated like any other.
C19_OneMoreHashPerHeadingLine ==
    pc = "returned"
       => /\ LineCount(ret) = LineCount(arg)
          /\ \A k \in 1..LineCount(arg) : LineAt(ret, k) = Demoted(LineAt(arg, k))

\* adjust_headings has returned the fenced text with its indented heading
\* line one level down.
C19_Witness ==
    /\ pc = "returned"
    /\ arg = FencedText
    /\ ret = << "~","~","~","\n", " "," ","#","#"," ","a","\n", "~","~","~" >>

\* C20: format_timestamp returns the empty string exactly for None, and for
\* every epoch value the local date, hour and minute of the whole second at
\* or below it: the seconds and their fraction are cut off, never rounded up.
C20_MinuteTruncated ==
    pc = "returned"
       => /\ ret = <<>> <=> IsNone(arg)
          /\ ~IsNone(arg)
                => LET local == arg.n + TzOffset
                   IN  ret = << local \div 86400, (local % 86400) \div 3600,
                                (local % 3600) \div 60 >>

\* The position of the k-th line of a kind among some lines.
KindAt(lines, kind, k) ==
    CHOOSE i \in 1..Len(lines) :
        /\ lines[i].t = kind
        /\ Cardinality({j \in 1..i : lines[j].t = kind}) = k

KindCount(lines, kind) == Cardinality({i \in 1..Len(lines) : lines[i].t = kind})

\* The lines from the k-th line of a kind up to the next line of that kind.
Piece(lines, kind, k) ==
    SubSeq(lines, KindAt(lines, kind, k),
           IF k = KindCount(lines, kind) THEN Len(lines)
           ELSE KindAt(lines, kind, k + 1) - 1)

\* The lines of the k-th Turn of a document, and the b-th response section
\* among the lines of a Turn.
TurnSegment(doc, k) == Piece(doc.body, "turn", k)
ResponseSection(segment, b) == Piece(segment, "chatgpt", b)

\* C21: in a produced document a Turn without assistant branch has exactly
\* one response section, which is the response heading followed by
\* separators and blank lines only: no content, model or send time line.
C21_NoBranchGivesPlaceholder ==
    Produced
       => \A k \in 1..Len(turns) :
             turns[k].assistants = <<>>
                => LET segment == TurnSegment(outFile.doc, k)
                   IN  /\ KindCount(segment, "chatgpt") = 1
                       /\ LET section == ResponseSection(segment, 1)
                          IN  /\ section[1].t = "chatgpt"
                              /\ \A i \in 2..Len(section) : section[i].t \in {"blank", "rule"}
                              /\ KindCount(section, "rule") = 2

\* A conversation whose second Turn has no response was converted.
C21_Witness ==
    /\ Produced
    /\ Len(turns) = 2
    /\ turns[1].assistants # <<>>
    /\ turns[2].assistants = <<>>
    /\ KindCount(TurnSegment(outFile.doc, 2), "chatgpt") = 1

\* The text extract_message_content gives for a recorded entry.
ContentOf(entry) == extract_message_content(entry.message).text

\* C22 as stated: a Turn with branches has one response section for each
\* branch whose extracted content is not empty, and none for a branch whose
\* content is the empty string.
C22_SectionOnlyForNonEmptyBranch ==
    Produced
       => \A k \in 1..Len(turns) :
             turns[k].assistants # <<>>
                => KindCount(TurnSegment(outFile.doc, k), "chatgpt") =
                      Cardinality({b \in 1..Len(turns[k].assistants) :
                                      ContentOf(turns[k].assistants[b]) # <<>>})

\* C22, amended: a Turn with branches has one response section for each
\* branch, in branch order, with the branch's content with its headings one
\* level down; the section has the model line of that message's metadata
\* and its send time exactly when the content is not empty, and a branch
\* whose content is the empty string gives a section of the heading, an
\* empty content line and separators only.
C22_StampOnlyForNonEmptyBranch ==
    Produced
       => \A k \in 1..Len(turns) :
             turns[k].assistants # <<>>
                => LET segment == TurnSegment(outFile.doc, k)
                   IN  /\ KindCount(segment, "chatgpt") = Len(turns[k].assistants)
                       /\ \A b \in 1..Len(turns[k].assistants) :
                             LET section == ResponseSection(segment, b)
                                 entry == turns[k].assistants[b]
                                 kinds == [i \in 1..Len(section) |-> section[i].t]
                             IN  /\ section[3] = ContentLine(adjust_headings(ContentOf(entry)))
                                 /\ KindCount(section, "content") = 1
                                 /\ IF ContentOf(entry) # <<>>
                                    THEN /\ SubSeq(kinds, 4, 10) =
                                               <<"blank", "rule", "blank", "model",
                                                 "sent", "blank", "rule">>
                                         /\ section[7] = ModelLine(ModelSlug(entry.message))
                                         /\ section[8] = SentLine(
                                               format_timestamp(entry.message.create_time))
                                    ELSE /\ KindCount(section, "model") = 0
                                         /\ KindCount(section, "sent") = 0
                                         /\ KindCount(section, "rule") = 2

\* A conversation was converted whose Turn has a branch with the empty
\* string as content before a branch with text.
C22_Witness ==
    /\ Produced
    /\ \E k \in 1..Len(turns) :
          /\ Len(turns[k].assistants) = 2
          /\ ContentOf(turns[k].assistants[1]) = <<>>
          /\ ContentOf(turns[k].assistants[2]) # <<>>
          /\ KindCount(TurnSegment(outFile.doc, k), "chatgpt") = 2

\* The positions of the user entries of the flattened list, and the k-th.
UserPositions == {i \in 1..Len(messages) : IsUser(messages[i])}
UserAt(k) ==
    CHOOSE i \in UserPositions : Cardinality({j \in UserPositions : j <= i}) = k

\* The number of branches of some Turns together.
RECURSIVE BranchTotal(_)
BranchTotal(ts) ==
    IF ts = <<>> THEN 0 ELSE Len(Head(ts).assistants) + BranchTotal(Tail(ts))

\* C26: build_turns returns one Turn for each user entry of the flattened
\* list, in order and numbered from 0, whose branch list is exactly the
\* entries between that user entry and the next user entry or the end of the
\* list, all of them assistant entries; the assistant entries before the
\* first user entry are in no Turn and every later one is in one Turn.
C26_TurnsPartitionFlattenedList ==
    BuildTurnsReturned
       => /\ Len(turns) = Cardinality(UserPositions)
          /\ \A k \in 1..Len(turns) :
                LET from == UserAt(k)
                    to == IF k = Len(turns) THEN Len(messages) + 1 ELSE UserAt(k + 1)
                IN  /\ turns[k].turn_number = k - 1
                    /\ turns[k].user = messages[from]
                    /\ turns[k].assistants = SubSeq(messages, from + 1, to - 1)
                    /\ \A b \in 1..Len(turns[k].assistants) :
                          IsAssistant(turns[k].assistants[b])
          /\ BranchTotal(turns) =
                Cardinality({i \in 1..Len(messages) :
                                /\ IsAssistant(messages[i])
                                /\ \E u \in UserPositions : u < i})

\* build_turns returned two Turns, one of them with two branches, for a
\* flattened list that starts with an assistant entry.
C26_Witness ==
    /\ BuildTurnsReturned
    /\ Len(messages) >= 5
    /\ IsAssistant(messages[1])
    /\ Len(turns) = 2
    /\ \E k \in 1..2 : Len(turns[k].assistants) = 2

\* The recorded assistant children of a node.
AssistantChildren(node) ==
    {c \in 1..Len(node.children) :
        /\ node.children[c] \in Ids(input.mapping)
        /\ Recordable(NodeOf(input.mapping, node.children[c]))
        /\ IsAssistantNode(NodeOf(input.mapping, node.children[c]))}

\* The ids of the branches of the Turns of a user node.
BranchesOf(userId) ==
    UNION {{turns[k].assistants[b].node_id : b \in 1..Len(turns[k].assistants)} :
              k \in {t \in 1..Len(turns) : turns[t].user.node_id = userId}}

\* C27: on a tree-shaped mapping, when a recorded user node has several
\* recorded assistant children, each of them is a branch of that user's Turn
\* and of no other Turn, whatever lies below the earlier children.
C27_BranchesAreSiblings ==
    (BuildTurnsReturned /\ input.exists /\ TreeShaped(input.mapping))
       => \A i \in 1..Len(input.mapping) :
             LET node == input.mapping[i]
             IN  (Recordable(node) /\ IsUserNode(node)
                     /\ Cardinality(AssistantChildren(node)) >= 2)
                    => \A c \in AssistantChildren(node) :
                          /\ node.children[c] \in BranchesOf(node.id)
                          /\ \A k \in 1..Len(turns) :
                                turns[k].user.node_id # node.id
                                   => \A b \in 1..Len(turns[k].assistants) :
                                         turns[k].assistants[b].node_id # node.children[c]

\* Whether a walk along children references leads from one node to another
\* in at most fuel + 1 steps.
RECURSIVE Reaches(_, _, _, _)
Reaches(mapping, from, to, fuel) ==
    /\ from \in Ids(mapping)
    /\ \E c \in 1..Len(NodeOf(mapping, from).children) :
          LET child == NodeOf(mapping, from).children[c]
          IN  \/ child = to
              \/ fuel > 0 /\ Reaches(mapping, child, to, fuel - 1)

\* A cycle of children references can be reached from the root.
CycleFromRoot ==
    \E i \in 1..Len(input.mapping) :
        LET id == input.mapping[i].id
        IN  /\ id = root_id \/ Reaches(input.mapping, root_id, id, Len(input.mapping))
            /\ Reaches(input.mapping, id, id, Len(input.mapping))

\* C28: once the root is found, build_turns does not end in a RecursionError
\* on a mapping without a cycle of children references below the root, and
\* it never returns when such a cycle can be reached from the root.
C28_ReturnsUnlessCycle ==
    (input.exists /\ root_id # NoNode)
       => /\ ~CycleFromRoot => result # Raise("RecursionError")
          /\ CycleFromRoot => ~BuildTurnsReturned /\ pc # "group"

\* The mapping with every child reference to a missing node taken out of
\* the children lists.
WithoutMissing(mapping) ==
    [i \in 1..Len(mapping) |->
        [mapping[i] EXCEPT !.children =
            SelectSeq(@, LAMBDA c : c \in Ids(mapping))]]

HasMissingChild ==
    \E i \in 1..Len(input.mapping) :
        \E j \in 1..Len(input.mapping[i].children) :
            input.mapping[i].children[j] \notin Ids(input.mapping)

\* A Turn sequence without the copy of the children list that each entry
\* carries.
Brief(entry) ==
    [node_id |-> entry.node_id, role |-> entry.role, message |-> entry.message]

BriefTurns(ts) ==
    [k \in 1..Len(ts) |->
        [turn_number |-> ts[k].turn_number,
         user |-> Brief(ts[k].user),
         assistants |-> [b \in 1..Len(ts[k].assistants) |-> Brief(ts[k].assistants[b])]]]

\* What the traversal of the mapping without the missing references records
\* and prints.
EntriesWithoutMissing ==
    LET clean == WithoutMissing(input.mapping)
        walk == PreOrder(clean, root_id)
        kept == SelectSeq(walk, LAMBDA id : Recordable(NodeOf(clean, id)))
    IN  [k \in 1..Len(kept) |-> Entry(NodeOf(clean, kept[k]))]

ExtractedWithoutMissing ==
    LET clean == WithoutMissing(input.mapping)
        walk == SelectSeq(PreOrder(clean, root_id),
                          LAMBDA id : Extracts(NodeOf(clean, id)))
    IN  [k \in 1..Len(walk) |-> Entry(NodeOf(clean, walk[k]))]

\* C29: a child reference to an id that is not in the mapping raises nothing
\* and records and prints nothing: where the mapping is a tree but for such
\* references, the traversal records the later siblings in order and
\* build_turns returns the Turns of the mapping without these references.
C29_MissingChildSkipped ==
    (input.exists /\ HasMissingChild /\ root_id # NoNode
        /\ TreeShaped(WithoutMissing(input.mapping)))
       => /\ pc # "raised"
          /\ \A k \in 1..Len(calls) : calls[k].node_id \in Ids(input.mapping)
          /\ IsPrefix(MessageIds,
                      [k \in 1..Len(EntriesWithoutMissing) |->
                          EntriesWithoutMissing[k].node_id])
          /\ TraversalDone
                => /\ [k \in 1..Len(messages) |-> Brief(messages[k])]
                         = [k \in 1..Len(EntriesWithoutMissing) |->
                               Brief(EntriesWithoutMissing[k])]
                   /\ pc = "group"
                         => /\ calls = CallsOfEntries(ExtractedWithoutMissing)
                            /\ stdout = InfoOfEntries(ExtractedWithoutMissing)
          /\ BuildTurnsReturned
                => BriefTurns(turns) = BriefTurns(GroupTurns(EntriesWithoutMissing))

\* The command ended on a mapping in which a node lists a missing child
\* ahead of a child whose message was recorded, and a Turn was built.
C29_Witness ==
    /\ pc = "done"
    /\ TreeShaped(WithoutMissing(input.mapping))
    /\ Len(turns) > 0
    /\ \E i \in 1..Len(input.mapping) :
          LET children == input.mapping[i].children
          IN  /\ Len(children) >= 2
              /\ children[1] \notin Ids(input.mapping)
              /\ IsRecorded(children[2])

(***************************************************************************)
(* Properties of batch_convert.                                            *)
(***************************************************************************)
\* The positions of the .json entries other than index.json.
Convertible ==
    {k \in 1..Len(batch.entries) : batch.entries[k].json /\ ~batch.entries[k].index}

\* C23: a failing conversion does not end the batch: the files attempted are
\* the discovered .json files other than index.json, each once and in the
\* order of discovery; after every file success_count + error_count is the
\* number of files attempted and warning_count is at most success_count.
C23_EveryFileAttemptedOnce ==
    batch.input = "dir"
       => /\ exit_code = Running
          /\ pc # "batch_main"
                => /\ {batch.json_files[k] : k \in 1..Len(batch.json_files)} = Convertible
                   /\ \A k \in 1..(Len(batch.json_files) - 1) :
                         batch.json_files[k] < batch.json_files[k + 1]
          /\ Len(batch.attempted) <= Len(batch.json_files)
          /\ batch.attempted = SubSeq(batch.json_files, 1, Len(batch.attempted))
          /\ pc = "batch_loop"
                => /\ Len(batch.attempted) = batch.i - 1
                   /\ batch.i <= Len(batch.json_files)
          /\ pc \in {"batch_report", "returned"} => batch.attempted = batch.json_files
          /\ batch.success_count + batch.error_count = Len(batch.attempted)
          /\ batch.warning_count <= batch.success_count

\* The batch returned after a file whose conversion raised was followed by
\* one that was converted with a skipped content type, with an index.json
\* among the entries.
C23_Witness ==
    /\ pc = "returned"
    /\ \E k \in 1..Len(batch.entries) : batch.entries[k].index
    /\ \E a, b \in 1..Len(batch.attempted) :
          /\ a < b
          /\ batch.entries[batch.attempted[a]].does = "raises"
          /\ batch.entries[batch.attempted[b]].does = "info_turns"
    /\ batch.error_count = 1
    /\ batch.warning_count = 1

\* The next round of the loop converts a conversation without a Turn.
EmptyConversationNext ==
    /\ pc = "batch_loop"
    /\ batch.entries[batch.json_files[batch.i]].does \in {"no_turns", "info_no_turns"}

\* C30 as stated: a conversation without a Turn counts as a success and
\* neither as an error nor as a warning, no .md file exists for it
\* afterwards, and its warning line alone is added to the log.
C30_EmptyIsPlainSuccess ==
    [][EmptyConversationNext
         => LET file == batch.json_files[batch.i]
            IN  /\ batch'.success_count = batch.success_count + 1
                /\ batch'.error_count = batch.error_count
                /\ batch'.warning_count = batch.warning_count
                /\ batch'.out[file] = "none"
                /\ batch'.log_entries
                      = Append(batch.log_entries,
                               [level |-> "WARNING", file |-> file,
                                text |-> WarningLine.text])]_vars

\* C30: a conversation without a Turn counts as a success and never as an
\* error; it counts as a warning exactly when its conversion printed an INFO
\* line; the batch leaves what is at its .md path as it was and writes no
\* .md file; the log gets the INFO lines and then the warning line.
C30_EmptyIsSuccess ==
    [][EmptyConversationNext
         => LET file == batch.json_files[batch.i]
                printed == generate_markdown(batch.entries[file].does).printed
                info == batch.entries[file].does = "info_no_turns"
            IN  /\ batch'.success_count = batch.success_count + 1
                /\ batch'.error_count = batch.error_count
                /\ batch'.error_files = batch.error_files
                /\ batch'.warning_count
                      = batch.warning_count + (IF info THEN 1 ELSE 0)
                /\ batch'.out[file] = batch.out[file]
                /\ batch'.out[file] # "new"
                /\ Len(batch'.log_entries)
                      = Len(batch.log_entries) + (IF info THEN 2 ELSE 1)
                /\ SubSeq(batch'.log_entries, 1, Len(batch.log_entries))
                      = batch.log_entries
                /\ batch'.log_entries[Len(batch'.log_entries)]
                      = [level |-> "WARNING", file |-> file,
                         text |-> WarningLine.text]
                /\ info => batch'.log_entries[Len(batch.log_entries) + 1].level
                              = "INFO"]_vars

\* The batch returned after two conversations without a Turn, the first of
\* which printed nothing but the warning while the second printed an INFO
\* line too, with an .md file of an earlier run at the path of the first.
C30_Witness ==
    /\ pc = "returned"
    /\ Len(batch.attempted) = 2
    /\ batch.entries[batch.attempted[1]].does = "no_turns"
    /\ batch.entries[batch.attempted[2]].does = "info_no_turns"
    /\ batch.out[batch.attempted[1]] = "old"
    /\ batch.success_count = 2
    /\ batch.warning_count = 1
    /\ Len(batch.log_entries) = 3

(***************************************************************************)
(* Properties of split_conversations.                                      *)
(***************************************************************************)
\* The conversation files this run has written so far.
WrittenNow == {w \in 1..Len(split.written) : split.written[w].run = split.run}

\* The name written is the wanted one when that was free, and otherwise the
\* numbered one with the least number that was free.
TookFirstFree(w) ==
    IF w.wanted \notin w.taken THEN w.path = w.wanted
    ELSE \E counter \in 1..(Cardinality(w.taken) + 1) :
            /\ w.path = Numbered(w.wanted, counter)
            /\ w.path \notin w.taken
            /\ \A lower \in 1..(counter - 1) : Numbered(w.wanted, lower) \in w.taken

\* Every entry of an index names the file that holds its conversation.
EntriesNameTheirFiles(entries, run) ==
    \A e \in 1..Len(entries) :
        [path |-> entries[e].path, holds |-> [run |-> run, id |-> entries[e].id]]
           \in split.files

DistinctPathsAndTrueIndex ==
    /\ split.overwritten.files = {}
    /\ \A w \in 1..Len(split.written) : TookFirstFree(split.written[w])
    /\ \A a, b \in 1..Len(split.written) :
          a # b => split.written[a].path # split.written[b].path
    /\ \A f \in split.files :
          f.holds = OldContent
             \/ \E w \in 1..Len(split.written) :
                   /\ split.written[w].path = f.path
                   /\ f.holds = [run |-> split.written[w].run, id |-> split.written[w].id]
    /\ pc \in {"split_loop", "split_index", "returned"}
          => EntriesNameTheirFiles(split.index_data, split.run)
    /\ split.index_file.run > 0
          => EntriesNameTheirFiles(split.index_file.entries, split.index_file.run)

\* C24 as stated: split_conversations overwrites no file that exists; a
\* conversation goes to the first free name among stem, stem_1, stem_2, ...,
\* so the conversations written in one run and in later runs over the same
\* directory have distinct paths, and the path of every index entry names
\* the file written for its conversation.
C24_NoFileOverwritten ==
    /\ ~split.overwritten.index
    /\ DistinctPathsAndTrueIndex

\* C24: split_conversations overwrites no conversation file: a conversation
\* goes to the first free name among stem, stem_1, stem_2, ..., so the
\* conversations written in one run and in later runs over the same
\* directory have distinct paths and every file keeps what was written to
\* it, and the path of every index entry names the file written for its
\* conversation. (index.json itself is written anew by every run.)
C24_NoConversationOverwritten ==
    /\ DistinctPathsAndTrueIndex
    /\ split.overwritten.index
          => split.index_file.exists /\ split.index_file.run > 0

\* The second run ended: two conversations whose titles give one file name
\* were written in each run, the output tree held a file of that name
\* before, and the second run replaced the index of the first.
C24_Witness ==
    /\ pc = "returned"
    /\ split.run = 2
    /\ Len(split.written) = 4
    /\ \A w \in 1..4 : split.written[w].wanted = PathOf(0, <<"a">>)
    /\ PathOf(0, <<"a">>) \in split.written[1].taken
    /\ split.written[4].path = PathOf(0, <<"a","_","4">>)
    /\ split.data[1].title # split.data[2].title
    /\ split.overwritten.index
    /\ Len(split.index_file.entries) = 2

\* The conversations of the export handled so far in this run.
Handled ==
    IF pc = "split_loop" THEN split.i - 1
    ELSE IF pc \in {"split_index", "returned"} THEN Len(split.data)
    ELSE 0

IndexOrdered(entries) ==
    \A e \in 1..(Len(entries) - 1) :
        ~KeyBefore(entries[e + 1].create_time, entries[e].create_time)

\* C25: a conversation without create_time is counted as an error and gets
\* neither a file nor an index entry; every conversation that is written
\* has exactly one index entry; the index has success_count entries,
\* success_count + error_count is the number of conversations handled, and
\* the index written is in non-decreasing order of create_time.
C25_IndexMatchesWritten ==
    (split.exists /\ pc \in {"split_loop", "split_index", "returned"})
       => /\ \A w \in WrittenNow :
                ~IsNone(split.data[split.written[w].id].create_time)
          /\ \A e \in 1..Len(split.index_data) :
                ~IsNone(split.index_data[e].create_time)
          /\ split.error_count
                >= Cardinality({k \in 1..Handled :
                                  IsNone(split.data[k].create_time)})
          /\ \A w \in WrittenNow :
                Cardinality({e \in 1..Len(split.index_data) :
                                split.index_data[e].id = split.written[w].id}) = 1
          /\ \A e \in 1..Len(split.index_data) :
                \E w \in WrittenNow : split.written[w].id = split.index_data[e].id
          /\ Len(split.index_data) = split.success_count
          /\ split.success_count + split.error_count = Handled
          /\ pc = "returned"
                => /\ split.index_file.entries = split.index_data
                   /\ IndexOrdered(split.index_file.entries)

====
